---- MODULE Spec2Model ----
(***************************************************************************)
(* A model of the benchmark pipeline (scripts/benchmark-pipeline): the     *)
(* tracking store (lib/tracker.py), the entry schema (lib/models.py) and   *)
(* the stage drivers of pipeline.py, each driver stepping through the      *)
(* entries it selected, one update_status call per step.                   *)
(***************************************************************************)
EXTENDS Integers, Sequences, FiniteSets, TLC

VARIABLES
    db,         \* Tracker.db of the running command: the in-memory TrackingDatabase
    file,       \* the tracking YAML file: [exists, data]
    now,        \* the clock read by now_iso()
    pc,         \* position of the running command ("idle": no command runs)
    entries,    \* the command's local `entries`: indices into db.papers, still to process
    args,       \* the command's argparse namespace
    yaml_content, \* cmd_generate's local `yaml_content` (NoText: unset)
    pdfs,       \* paper ids whose PDF is in temp_pdf_dir
    analyses,   \* analyses_dir: paper id -> saved PaperAnalysis
    blueprints, \* output_dir: blueprint path -> the text written there
    last,       \* history: the entry as it was before the running command's latest
                \* update_status call (<<>> when there is none)
    call        \* history: the latest call a client made on a Tracker it holds, with
                \* what the call returned ([op |-> "none"] when there is none)

vars == <<db, file, now, pc, entries, args, yaml_content, pdfs, analyses, blueprints, last, call>>

----------------------------------------------------------------------------
(* Bounds *)

MaxPapers == 2
MaxFound == 2
MaxClock == 1
MaxBlocks == 3
MaxItems == 2

----------------------------------------------------------------------------
(* lib/models.py *)

\* Optional[T]: None is the empty set, a value x is {x}
None == {}
Some(x) == {x}

\* PaperStatus members, by name
DISCOVERED == "DISCOVERED"
DOWNLOADING == "DOWNLOADING"
DOWNLOADED == "DOWNLOADED"
ANALYZING == "ANALYZING"
ANALYZED == "ANALYZED"
INSUFFICIENT_DATA == "INSUFFICIENT_DATA"
CONVERTING == "CONVERTING"
READY_FOR_REVIEW == "READY_FOR_REVIEW"
APPROVED == "APPROVED"
PR_CREATED == "PR_CREATED"
UPLOADED == "UPLOADED"
DENIED == "DENIED"
SKIPPED == "SKIPPED"

PaperStatus ==
    {DISCOVERED, DOWNLOADING, DOWNLOADED, ANALYZING, ANALYZED, INSUFFICIENT_DATA,
     CONVERTING, READY_FOR_REVIEW, APPROVED, PR_CREATED, UPLOADED, DENIED, SKIPPED}

\* PaperStatus.X.value: the string a member is dumped as
StatusValue(s) ==
    CASE s = DISCOVERED -> "discovered"
      [] s = DOWNLOADING -> "downloading"
      [] s = DOWNLOADED -> "downloaded"
      [] s = ANALYZING -> "analyzing"
      [] s = ANALYZED -> "analyzed"
      [] s = INSUFFICIENT_DATA -> "insufficient_data"
      [] s = CONVERTING -> "converting"
      [] s = READY_FOR_REVIEW -> "ready_for_review"
      [] s = APPROVED -> "approved"
      [] s = PR_CREATED -> "pr_created"
      [] s = UPLOADED -> "uploaded"
      [] s = DENIED -> "denied"
      [] s = SKIPPED -> "skipped"

\* PaperStatus(value): the member a dumped string is loaded as
StatusOfValue(v) == CHOOSE s \in PaperStatus : StatusValue(s) = v

\* The attributes of a TrackingEntry
EntryFields ==
    {"paper_id", "title", "authors", "arxiv_url", "pdf_url", "doi", "categories",
     "abstract_snippet", "citation_count", "influential_citation_count",
     "status", "reason", "analysis_path", "blueprint_filename", "blueprint_path",
     "pr_url", "discovery_date", "last_updated", "sufficiency_score",
     "prompt_count", "has_explicit_rubric"}

\* TrackingDatabase(): version 1, no papers, last_updated from the clock
TrackingDatabase(t) == [version |-> 1, last_updated |-> t, papers |-> <<>>]

----------------------------------------------------------------------------
(* Python strings *)

\* s[i - 1]: the i-th character
Char(s, i) == SubSeq(s, i, i)

\* s[i - 1:]
From(s, i) == SubSeq(s, i, Len(s))

\* s[:n]
Prefix(s, n) == SubSeq(s, 1, IF Len(s) < n THEN Len(s) ELSE n)

Whitespace == {" ", "\t", "\n", "\r"}

\* s.lstrip(chars), s.rstrip(chars), s.strip(chars)
RECURSIVE LStrip(_, _)
LStrip(s, chars) ==
    IF s # "" /\ Char(s, 1) \in chars THEN LStrip(From(s, 2), chars) ELSE s

RECURSIVE RStrip(_, _)
RStrip(s, chars) ==
    IF s # "" /\ Char(s, Len(s)) \in chars THEN RStrip(SubSeq(s, 1, Len(s) - 1), chars) ELSE s

Strip(s, chars) == RStrip(LStrip(s, chars), chars)

\* s.startswith(prefix)
StartsWith(s, prefix) == Len(s) >= Len(prefix) /\ SubSeq(s, 1, Len(prefix)) = prefix

UpperLetters == "ABCDEFGHIJKLMNOPQRSTUVWXYZ"
LowerLetters == "abcdefghijklmnopqrstuvwxyz"
Digits == "0123456789"

CharsOf(s) == {Char(s, i) : i \in 1..Len(s)}

LowerChar(c) ==
    IF c \in CharsOf(UpperLetters)
    THEN Char(LowerLetters, CHOOSE i \in 1..Len(UpperLetters) : Char(UpperLetters, i) = c)
    ELSE c

\* s.lower()
RECURSIVE Lower(_)
Lower(s) == IF s = "" THEN "" ELSE LowerChar(Char(s, 1)) \o Lower(From(s, 2))

\* s.find(c) + 1 for a character c: the first position of c, 0 when absent
Find(s, c) ==
    IF \E i \in 1..Len(s) : Char(s, i) = c
    THEN CHOOSE i \in 1..Len(s) : Char(s, i) = c /\ \A j \in 1..(i - 1) : Char(s, j) # c
    ELSE 0

\* s.rfind(c) + 1
RFind(s, c) ==
    IF \E i \in 1..Len(s) : Char(s, i) = c
    THEN CHOOSE i \in 1..Len(s) : Char(s, i) = c /\ \A j \in (i + 1)..Len(s) : Char(s, j) # c
    ELSE 0

\* sep.join(parts)
RECURSIVE Join(_, _)
Join(sep, parts) ==
    IF parts = <<>> THEN ""
    ELSE IF Len(parts) = 1 THEN parts[1]
    ELSE parts[1] \o sep \o Join(sep, Tail(parts))

----------------------------------------------------------------------------
(* lib/utils.py *)

\* re.sub(r"^(a|an|the)\s+", "", text)
DropArticle(text) ==
    LET cut(word) ==
            IF StartsWith(text, word) /\ Len(text) > Len(word)
               /\ Char(text, Len(word) + 1) \in Whitespace
            THEN LStrip(From(text, Len(word) + 1), Whitespace)
            ELSE text
    IN  IF cut("a") # text THEN cut("a")
        ELSE IF cut("an") # text THEN cut("an")
        ELSE cut("the")

SlugChars == CharsOf(LowerLetters) \cup CharsOf(Digits)

\* re.sub(r"[^a-z0-9]+", "-", text): every run of other characters becomes one hyphen
RECURSIVE Hyphenate(_, _)
Hyphenate(text, in_run) ==
    IF text = "" THEN ""
    ELSE IF Char(text, 1) \in SlugChars
         THEN Char(text, 1) \o Hyphenate(From(text, 2), FALSE)
         ELSE (IF in_run THEN "" ELSE "-") \o Hyphenate(From(text, 2), TRUE)

\* text[:max_length].rsplit("-", 1)[0]
CutAtHyphen(text, max_length) ==
    LET head == Prefix(text, max_length)
        k == RFind(head, "-")
    IN  IF k = 0 THEN head ELSE SubSeq(head, 1, k - 1)

SlugDefault == 60

\* slugify(text, max_length)
slugify(text, max_length) ==
    LET t1 == Strip(Lower(text), Whitespace)
        t2 == DropArticle(t1)
        t3 == Strip(Hyphenate(t2, FALSE), {"-"})
    IN  IF Len(t3) > max_length THEN CutAtHyphen(t3, max_length) ELSE t3

\* truncate(text, max_length)
truncate(text, max_length) ==
    IF Len(text) <= max_length
    THEN text
    ELSE SubSeq(text, 1, max_length - 3) \o "..."

TruncateDefault == 200

\* _last_name: full_name.strip().split()[-1], or full_name when it is blank
_last_name(full_name) ==
    LET t == Strip(full_name, Whitespace)
        k == IF \E i \in 1..Len(t) : Char(t, i) \in Whitespace
             THEN CHOOSE i \in 1..Len(t) :
                    /\ Char(t, i) \in Whitespace
                    /\ \A j \in (i + 1)..Len(t) : Char(t, j) \notin Whitespace
             ELSE 0
    IN  IF t = "" THEN full_name ELSE From(t, k + 1)

\* format_authors_short
format_authors_short(authors) ==
    IF authors = <<>> THEN "Unknown"
    ELSE IF Len(authors) = 1 THEN _last_name(authors[1])
    ELSE IF Len(authors) = 2 THEN _last_name(authors[1]) \o " & " \o _last_name(authors[2])
    ELSE _last_name(authors[1]) \o " et al."

----------------------------------------------------------------------------
(* lib/tracker.py *)

\* model_dump(mode="json") of an entry / of the database: the enum becomes its value
DumpEntry(e) == [e EXCEPT !.status = StatusValue(e.status)]
DumpDb(d) == [d EXCEPT !.papers = [i \in 1..Len(d.papers) |-> DumpEntry(d.papers[i])]]

\* a load that keeps the status as the string it finds in the file
ParseEntryAsDumped(r) == r

\* TrackingDatabase(**raw): the value becomes the enum member again
ParseEntry(r) == [r EXCEPT !.status = StatusOfValue(r.status)]
ParseDb(raw) == [raw EXCEPT !.papers = [i \in 1..Len(raw.papers) |-> ParseEntry(raw.papers[i])]]

NoFile == [exists |-> FALSE, data |-> DumpDb(TrackingDatabase(0))]

\* a _save that writes the file before it stamps the database
SavedFileUnstamped(d, t) == [exists |-> TRUE, data |-> DumpDb(d)]

\* Tracker._save: stamps db.last_updated, then writes the whole database
SavedDb(d, t) == [d EXCEPT !.last_updated = t]
SavedFile(d, t) == [exists |-> TRUE, data |-> DumpDb(SavedDb(d, t))]

\* a _load that returns an empty database for a missing file and writes nothing
LoadFileNever(f, t) == f

\* Tracker._load: a missing file is created empty; an existing one is parsed
LoadDb(f, t) == IF ~f.exists THEN SavedDb(TrackingDatabase(t), t) ELSE ParseDb(f.data)
LoadFile(f, t) == IF ~f.exists THEN SavedFile(TrackingDatabase(t), t) ELSE f

\* a get_entry that falls back on the first entry when the id is not tracked
get_entry_or_first(d, paper_id) ==
    IF \E i \in 1..Len(d.papers) : d.papers[i].paper_id = paper_id
    THEN CHOOSE i \in 1..Len(d.papers) :
            /\ d.papers[i].paper_id = paper_id
            /\ \A j \in 1..(i - 1) : d.papers[j].paper_id # paper_id
    ELSE IF d.papers # <<>> THEN 1 ELSE 0

\* Tracker.get_entry: the index of the first entry with this id, 0 for None
get_entry(d, paper_id) ==
    IF \E i \in 1..Len(d.papers) : d.papers[i].paper_id = paper_id
    THEN CHOOSE i \in 1..Len(d.papers) :
            /\ d.papers[i].paper_id = paper_id
            /\ \A j \in 1..(i - 1) : d.papers[j].paper_id # paper_id
    ELSE 0

\* a has_paper that never finds the id
HasPaperNever(d, paper_id) == FALSE

has_paper(d, paper_id) == get_entry(d, paper_id) # 0

\* TrackingEntry(...) as add_paper builds it
NewEntry(paper, t) ==
    [paper_id |-> paper.paper_id,
     title |-> paper.title,
     authors |-> paper.authors,
     arxiv_url |-> paper.arxiv_url,
     pdf_url |-> paper.pdf_url,
     doi |-> paper.doi,
     categories |-> paper.categories,
     abstract_snippet |-> truncate(paper.abstract, TruncateDefault),
     citation_count |-> paper.citation_count,
     influential_citation_count |-> paper.influential_citation_count,
     status |-> DISCOVERED,
     reason |-> "",
     analysis_path |-> None,
     blueprint_filename |-> None,
     blueprint_path |-> None,
     pr_url |-> None,
     discovery_date |-> t,
     last_updated |-> t,
     sufficiency_score |-> None,
     prompt_count |-> None,
     has_explicit_rubric |-> None]

\* an add_paper that puts the new entry first
add_paper_first(d, paper, t) ==
    IF has_paper(d, paper.paper_id)
    THEN d
    ELSE [d EXCEPT !.papers = <<NewEntry(paper, t)>> \o @]

\* Tracker.add_paper: the database afterwards (before _save stamps it)
add_paper(d, paper, t) ==
    IF has_paper(d, paper.paper_id)
    THEN d
    ELSE [d EXCEPT !.papers = Append(@, NewEntry(paper, t))]

\* whether add_paper saves: only when it appended
add_paper_saves(d, paper) == ~has_paper(d, paper.paper_id)

\* what add_paper returns: line 74 the entry already tracked, line 92 the new one
add_paper_returns(d, paper, t) ==
    IF has_paper(d, paper.paper_id)
    THEN d.papers[get_entry(d, paper.paper_id)]
    ELSE NewEntry(paper, t)

\* an update that also drops the entry's analysis_path
UpdatedEntryDroppingAnalysis(e, status, kwargs, t) ==
    [f \in DOMAIN e |->
        IF f \in DOMAIN kwargs THEN kwargs[f]
        ELSE IF f = "status" THEN status
        ELSE IF f = "last_updated" THEN t
        ELSE IF f = "analysis_path" THEN None
        ELSE e[f]]

\* the loop body of update_status: status, last_updated, then every kwarg the entry has
UpdatedEntry(e, status, kwargs, t) ==
    LET base == [e EXCEPT !.status = status, !.last_updated = t]
    IN  [f \in DOMAIN e |-> IF f \in DOMAIN kwargs THEN kwargs[f] ELSE base[f]]

\* Tracker.update_status: the database afterwards (before _save stamps it)
update_status(d, paper_id, status, kwargs, t) ==
    LET i == get_entry(d, paper_id)
    IN  IF i = 0
        THEN d
        ELSE [d EXCEPT !.papers[i] = UpdatedEntry(@, status, kwargs, t)]

\* Tracker.get_papers_by_status: the indices, in store order
RECURSIVE FilterIdx(_, _, _)
FilterIdx(d, status, i) ==
    IF i > Len(d.papers)
    THEN <<>>
    ELSE (IF d.papers[i].status = status THEN <<i>> ELSE <<>>) \o FilterIdx(d, status, i + 1)

\* a get_papers_by_status that gives the latest entries first
get_papers_by_status_latest_first(d, status) ==
    LET idx == FilterIdx(d, status, 1)
    IN  [k \in 1..Len(idx) |-> idx[Len(idx) + 1 - k]]

get_papers_by_status(d, status) == FilterIdx(d, status, 1)

\* no keyword arguments
NoKw == [f \in {} |-> ""]

\* attributes an entry has that are no fields: the methods of pydantic's BaseModel
\* the source calls (model_dump at line 48, model_copy at pipeline.py:343)
ModelAttributes == {"model_dump", "model_copy"}

\* hasattr(entry, key), line 107
hasattr(e, key) == key \in DOMAIN e \cup ModelAttributes

\* line 108: setattr raises for a key that hasattr finds and that is no field
\* (pydantic: ValueError, object has no field)
SetattrRaises(e, kwargs) == \E key \in DOMAIN kwargs : hasattr(e, key) /\ key \notin DOMAIN e

\* the entry in memory when setattr raised: status and last_updated are set, and
\* the fields the caller passed before the key that raised
InterruptedEntries(e, status, kwargs, t) ==
    {UpdatedEntry(e, status, [f \in S |-> kwargs[f]], t) :
        S \in SUBSET (DOMAIN kwargs \cap DOMAIN e)}

----------------------------------------------------------------------------
(* YAML values: what yaml.safe_load_all yields and yaml.dump takes *)

YNull == [type |-> "null", text |-> "", items |-> <<>>, map |-> <<>>]
YStr(s) == [type |-> "str", text |-> s, items |-> <<>>, map |-> <<>>]
YInt(n) == [type |-> "int", text |-> ToString(n), items |-> <<>>, map |-> <<>>]
YList(items) == [type |-> "list", text |-> "", items |-> items, map |-> <<>>]
YDict(map) == [type |-> "dict", text |-> "", items |-> <<>>, map |-> map]

IsDict(v) == v.type = "dict"
IsList(v) == v.type = "list"
IsStr(v) == v.type = "str"

\* a test that takes every document but null for a document with content
TruthyUnlessNull(v) == v.type # "null"

\* bool(v)
Truthy(v) ==
    IF v.type = "null" THEN FALSE
    ELSE IF v.type = "str" THEN v.text # ""
    ELSE IF v.type = "int" THEN v.text # "0"
    ELSE IF v.type = "list" THEN v.items # <<>>
    ELSE DOMAIN v.map # {}

\* key in d
HasKey(d, key) == key \in DOMAIN d.map

\* str(v) inside an f-string, for the scalars an id can be
PyStr(v) ==
    IF v.type = "null" THEN "None"
    ELSE IF v.type \in {"str", "int"} THEN v.text
    ELSE IF v.type = "list" THEN "[...]"
    ELSE "{...}"

\* the type yaml's implicit resolver gives a plain scalar: null, int, or str
\* for any other text met here
Resolved(text) ==
    IF text \in {"", "~", "null", "Null", "NULL"} THEN "null"
    ELSE IF \A i \in 1..Len(text) : Char(text, i) \in CharsOf(Digits) THEN "int"
    ELSE "str"

\* a scalar as written in a text: plain or quoted
Scalar(style, text) == [type |-> style, text |-> text, items |-> <<>>, map |-> <<>>]

\* a dump that writes every string plain
DumpStrPlain(s) == Scalar("plain", s)

\* yaml.dump of a str: plain when a plain scalar of this text is read back as
\* a str, quoted otherwise
DumpStr(s) == Scalar(IF Resolved(s) = "str" THEN "plain" ELSE "quoted", s)

\* yaml.dump(value, default_flow_style=False, sort_keys=False): the scalars as written
RECURSIVE yaml_dump(_)
yaml_dump(v) ==
    IF v.type = "str" THEN DumpStr(v.text)
    ELSE IF v.type = "null" THEN Scalar("plain", "null")
    ELSE IF v.type = "int" THEN Scalar("plain", v.text)
    ELSE IF v.type = "list" THEN YList([i \in 1..Len(v.items) |-> yaml_dump(v.items[i])])
    ELSE YDict([k \in DOMAIN v.map |-> yaml_dump(v.map[k])])

\* yaml.safe_load of what was written: a quoted scalar is a str, a plain one
\* what the resolver says
RECURSIVE yaml_load(_)
yaml_load(w) ==
    IF w.type = "quoted" THEN YStr(w.text)
    ELSE IF w.type = "plain"
    THEN (IF Resolved(w.text) = "null" THEN YNull
          ELSE IF Resolved(w.text) = "int"
          THEN [type |-> "int", text |-> w.text, items |-> <<>>, map |-> <<>>]
          ELSE YStr(w.text))
    ELSE IF w.type = "list" THEN YList([i \in 1..Len(w.items) |-> yaml_load(w.items[i])])
    ELSE YDict([k \in DOMAIN w.map |-> yaml_load(w.map[k])])

\* a text: the documents yaml.safe_load_all gives for it, or the exception it
\* raises: a YAMLError (the text is no YAML), or what a constructor raises for a
\* scalar (ValueError) or a deep nesting (RecursionError); NoText: no text yet
ParsedText(docs) == [parses |-> TRUE, docs |-> docs, exception |-> "", error |-> ""]
BrokenText(error) == [parses |-> FALSE, docs |-> <<>>, exception |-> "YAMLError", error |-> error]
UnloadableText(exception, error) ==
    [parses |-> FALSE, docs |-> <<>>, exception |-> exception, error |-> error]
NoText == ParsedText(<<>>)

----------------------------------------------------------------------------
(* lib/validators.py *)

\* a scan for header keys that knows none
NoHeaderKeys == {}

\* rubric checks that pass over "points"
RubricKeysWithoutPoints == <<"should", "should_not", "expect", "expects", "expectations">>

\* a scan for prompt keys that knows none
NoPromptKeys == {}

HeaderKeys == {"id", "title", "models", "system", "concurrency", "temperatures", "evaluationConfig"}
PromptKeys == {"prompt", "messages", "should", "ideal"}
RubricKeys == <<"should", "should_not", "points", "expect", "expects", "expectations">>

\* lines 96-110: the rubric checks of one prompt
RECURSIVE RubricErrors(_, _, _)
RubricErrors(prompt, prompt_id, k) ==
    IF k > Len(RubricKeys)
    THEN <<>>
    ELSE (IF HasKey(prompt, RubricKeys[k]) /\ ~IsList(prompt.map[RubricKeys[k]])
          THEN <<"Rubric '" \o RubricKeys[k] \o "' in prompt '" \o prompt_id \o "' must be a list.">>
          ELSE <<>>)
         \o RubricErrors(prompt, prompt_id, k + 1)

\* lines 78-110: the checks of the prompt at (0-based) index i
PromptErrors(prompt, i) ==
    IF ~IsDict(prompt)
    THEN <<"Prompt at index " \o ToString(i) \o " is not a valid object.">>
    ELSE
        LET prompt_id == IF HasKey(prompt, "id") THEN PyStr(prompt.map["id"])
                         ELSE "index-" \o ToString(i)
            has_prompt == \/ HasKey(prompt, "prompt") /\ IsStr(prompt.map["prompt"])
                          \/ HasKey(prompt, "promptText") /\ IsStr(prompt.map["promptText"])
            has_messages == HasKey(prompt, "messages") /\ IsList(prompt.map["messages"])
        IN  (IF ~has_prompt /\ ~has_messages
             THEN <<"Prompt '" \o prompt_id \o "' must contain 'prompt' or 'messages'.">>
             ELSE <<>>)
            \o RubricErrors(prompt, prompt_id, 1)

RECURSIVE AllPromptErrors(_, _)
AllPromptErrors(prompts, i) ==
    IF i >= Len(prompts)
    THEN <<>>
    ELSE PromptErrors(prompts[i + 1], i) \o AllPromptErrors(prompts, i + 1)

\* checks that ask for a prompt whatever the header holds
ValidatePromptsNeedingItems(header, prompts, errors) ==
    IF ~IsList(prompts)
    THEN Append(errors, "Could not identify a valid list of prompts.")
    ELSE IF prompts.items = <<>>
    THEN Append(errors, "Blueprint must contain at least one prompt or config header.")
    ELSE errors \o AllPromptErrors(prompts.items, 0)

\* lines 71-112: header and prompts are resolved; errors so far are given
ValidatePrompts(header, prompts, errors) ==
    IF ~IsList(prompts)
    THEN Append(errors, "Could not identify a valid list of prompts.")
    ELSE IF prompts.items = <<>> /\ ~Truthy(header)
    THEN Append(errors, "Blueprint must contain at least one prompt or config header.")
    ELSE errors \o AllPromptErrors(prompts.items, 0)

\* lines 17-20: the except clause catches yaml.YAMLError; any other exception of
\* safe_load_all leaves validate_blueprint_yaml
validate_blueprint_yaml_raises(content) ==
    ~content.parses /\ content.exception # "YAMLError"

\* validate_blueprint_yaml(content): the list it returns
validate_blueprint_yaml(content) ==
    IF ~content.parses
    THEN <<"Invalid YAML: " \o content.error>>
    ELSE
        LET docs == SelectSeq(content.docs, Truthy)
        IN  IF docs = <<>>
            THEN <<"YAML file is empty.">>
            ELSE
                LET first_doc == docs[1]
                IN  IF Len(docs) > 1 /\ IsDict(first_doc) /\ IsList(docs[2])
                    THEN ValidatePrompts(first_doc, docs[2], <<>>)
                    ELSE IF Len(docs) = 1 /\ IsDict(first_doc) /\ HasKey(first_doc, "prompts")
                    THEN ValidatePrompts(first_doc, first_doc.map["prompts"],
                            IF ~IsList(first_doc.map["prompts"])
                            THEN <<"The 'prompts' key must contain a list of prompts.">>
                            ELSE <<>>)
                    ELSE IF Len(docs) = 1 /\ IsList(first_doc)
                    THEN ValidatePrompts(YDict(<<>>), first_doc, <<>>)
                    ELSE IF \A k \in 1..Len(docs) : IsDict(docs[k])
                    THEN LET is_header == \E key \in HeaderKeys : HasKey(first_doc, key)
                             is_prompt == \E key \in PromptKeys : HasKey(first_doc, key)
                         IN  IF is_header /\ ~is_prompt
                             THEN ValidatePrompts(first_doc, YList(Tail(docs)), <<>>)
                             ELSE ValidatePrompts(YDict(<<>>), YList(docs), <<>>)
                    ELSE <<"Invalid YAML structure.">>

----------------------------------------------------------------------------
(* lib/blueprint_generator.py *)

\* PipelineConfig defaults the generator reads
default_tags == <<"benchmark", "automated-extraction">>
default_models == <<"CORE">>

\* the value of an Optional[str], "" for None
OrEmpty(opt) == IF opt = None THEN "" ELSE CHOOSE x \in opt : TRUE

StrList(strs) == YList([i \in 1..Len(strs) |-> YStr(strs[i])])

\* _build_description
_build_description(analysis, paper) ==
    Join("\n",
        <<IF analysis.description # "" THEN analysis.description
          ELSE "Evaluation based on: " \o paper.title>>
        \o (IF analysis.evaluation_type # ""
            THEN <<"\n**Evaluation type:** " \o analysis.evaluation_type>> ELSE <<>>)
        \o (IF analysis.metrics # <<>>
            THEN <<"\n**Metrics:** " \o Join(", ", analysis.metrics)>> ELSE <<>>)
        \o (IF analysis.scoring_methodology # ""
            THEN <<"\n**Scoring:** " \o analysis.scoring_methodology>> ELSE <<>>)
        \o <<"\n**Source:** [" \o paper.title \o "](" \o paper.arxiv_url \o ")">>)

TagSlugLength == 30

\* a loop that appends every slug
RECURSIVE AddEveryTag(_, _)
AddEveryTag(tags, more) ==
    IF more = <<>>
    THEN tags
    ELSE AddEveryTag(Append(tags, slugify(Head(more), TagSlugLength)), Tail(more))

\* _build_tags
RECURSIVE AddTags(_, _)
AddTags(tags, more) ==
    IF more = <<>>
    THEN tags
    ELSE LET slug_tag == slugify(Head(more), TagSlugLength)
         IN  AddTags(IF slug_tag # "" /\ \A i \in 1..Len(tags) : tags[i] # slug_tag
                     THEN Append(tags, slug_tag) ELSE tags,
                     Tail(more))

_build_tags(analysis) == AddTags(default_tags, analysis.tags)

\* the text after the first colon as it stands
AfterColonAsItStands(criterion) == From(criterion, Find(criterion, ":") + 1)

\* criterion.split(":", 1)[1].strip().strip('"').strip("'")
AfterColon(criterion) ==
    Strip(Strip(Strip(From(criterion, Find(criterion, ":") + 1), Whitespace), {"\""}), {"'"})

\* _build_should_items
RECURSIVE _build_should_items(_)
_build_should_items(criteria) ==
    IF criteria = <<>>
    THEN <<>>
    ELSE LET criterion == Head(criteria)
         IN  <<IF \/ StartsWith(criterion, "Must contain:") \/ StartsWith(criterion, "Contains:")
                  \/ StartsWith(criterion, "Answer:") \/ StartsWith(criterion, "Correct answer:")
               THEN YDict([k \in {"$icontains"} |-> YStr(AfterColon(criterion))])
               ELSE YStr(criterion)>>
             \o _build_should_items(Tail(criteria))

PromptIdLength == 40

\* lines 89-108: the entry built for one extracted prompt
PromptEntry(p, analysis) ==
    LET should_items == _build_should_items(p.scoring_criteria)
        fields ==
            [k \in {"id", "prompt"}
                  \cup (IF OrEmpty(p.ideal_response) # "" THEN {"ideal"} ELSE {})
                  \cup (IF should_items # <<>> THEN {"should"} ELSE {})
                  \cup (IF OrEmpty(p.system_prompt) # "" /\ p.system_prompt # analysis.system_prompt
                        THEN {"system"} ELSE {})
                  \cup (IF OrEmpty(p.category) # "" THEN {"description"} ELSE {}) |->
                IF k = "id"
                THEN YStr(IF p.id # "" THEN p.id ELSE slugify(Prefix(p.prompt_text, PromptIdLength), SlugDefault))
                ELSE IF k = "prompt" THEN YStr(p.prompt_text)
                ELSE IF k = "ideal" THEN YStr(OrEmpty(p.ideal_response))
                ELSE IF k = "should" THEN YList(should_items)
                ELSE IF k = "system" THEN YStr(OrEmpty(p.system_prompt))
                ELSE YStr("Category: " \o OrEmpty(p.category))]
    IN  YDict(fields)

\* lines 74-85: the header
BlueprintHeader(analysis, paper) ==
    LET fields ==
            [k \in {"title", "description", "author", "references", "tags", "models"}
                  \cup (IF OrEmpty(analysis.system_prompt) # "" THEN {"system"} ELSE {}) |->
                IF k = "title"
                THEN YStr(IF analysis.benchmark_name # "" THEN analysis.benchmark_name ELSE paper.title)
                ELSE IF k = "description" THEN YStr(_build_description(analysis, paper))
                ELSE IF k = "author" THEN YDict([name |-> YStr(format_authors_short(paper.authors))])
                ELSE IF k = "references"
                THEN YList(<<YDict([title |-> YStr(paper.title), url |-> YStr(paper.arxiv_url)])>>)
                ELSE IF k = "tags" THEN StrList(_build_tags(analysis))
                ELSE IF k = "models" THEN StrList(default_models)
                ELSE YStr(OrEmpty(analysis.system_prompt))]
    IN  YDict(fields)

\* generate_blueprint_deterministic: the text is the dump of the header, "---"
\* and the dump of the prompts; it is held as the documents it loads to
generate_blueprint_deterministic(analysis, paper) ==
    LET header == BlueprintHeader(analysis, paper)
        prompts == YList([i \in 1..Len(analysis.prompts) |->
                            PromptEntry(analysis.prompts[i], analysis)])
    IN  ParsedText(<<yaml_load(yaml_dump(header)), yaml_load(yaml_dump(prompts))>>)

\* blueprint_filename_for_paper
blueprint_filename_for_paper(analysis, paper) ==
    slugify(IF analysis.benchmark_name # "" THEN analysis.benchmark_name ELSE paper.title,
            SlugDefault) \o ".yml"

\* write_blueprint: the path written (filenames here end in .yml already)
BlueprintPath(filename) == "output/blueprints/" \o filename

\* write_blueprint: the output directory afterwards
write_blueprint(dir, yaml_content_arg, path) ==
    [q \in DOMAIN dir \cup {path} |-> IF q = path THEN yaml_content_arg ELSE dir[q]]

----------------------------------------------------------------------------
(* The pipeline's surroundings *)

PaperIdList == <<"2401.00001", "2401.00002", "2401.00003", "2401.00004">>
PaperIds == {PaperIdList[i] : i \in 1..MaxPapers}
Titles == {"Eval Suite"}

\* A Paper as discovery returns it
Paper(id, title) ==
    [paper_id |-> id,
     title |-> title,
     authors |-> <<"A. Author">>,
     abstract |-> "We introduce a benchmark.",
     arxiv_url |-> "abs/" \o id,
     pdf_url |-> "pdf/" \o id,
     categories |-> <<"cs.CL">>,
     doi |-> None,
     citation_count |-> None,
     influential_citation_count |-> None]

Papers == {Paper(id, t) : id \in PaperIds, t \in Titles}

\* SufficiencyResult as assess_sufficiency parses it (confidence in hundredths)
Sufficient ==
    [is_sufficient |-> TRUE, confidence |-> 90, has_scoring_criteria |-> TRUE,
     benchmark_name |-> Some("Bench"), reason |-> ""]
Insufficient(reason) ==
    [is_sufficient |-> FALSE, confidence |-> 20, has_scoring_criteria |-> FALSE,
     benchmark_name |-> None, reason |-> reason]

\* ExtractedPrompt
ExtractedPrompt(id, prompt_text, ideal_response, scoring_criteria) ==
    [id |-> id, prompt_text |-> prompt_text, system_prompt |-> None,
     ideal_response |-> ideal_response, scoring_criteria |-> scoring_criteria,
     category |-> None, source_section |-> None]

\* PaperAnalysis(...)
PaperAnalysis(paper_id, benchmark_name, prompts, sufficiency) ==
    [paper_id |-> paper_id, benchmark_name |-> benchmark_name, description |-> "",
     evaluation_type |-> "", metrics |-> <<>>, prompts |-> prompts,
     system_prompt |-> None, scoring_methodology |-> "",
     sufficiency |-> sufficiency, tags |-> <<>>]

\* what analyze_paper can return for a paper: lines 81-89 (insufficient: no prompts)
\* and lines 92-120 (the extracted methodology)
AnalysisResults(paper_id) ==
    {PaperAnalysis(paper_id, "", <<>>, Insufficient("")),
     PaperAnalysis(paper_id, "", <<>>, Insufficient("No evaluation prompts in the paper")),
     PaperAnalysis(paper_id, "Bench " \o paper_id,
                   <<ExtractedPrompt("", "What is 2+2?", Some("4"), <<"Answer: 4">>)>>,
                   Sufficient)}

\* str(e) of the faults the collaborators raise
FaultMessages == {"503 UNAVAILABLE"}

\* what generate_blueprint_via_gemini can return: a conformant text, one whose prompt
\* has no prompt and a scalar rubric
GeminiTexts ==
    {ParsedText(<<YDict([title |-> YStr("Bench")]),
                  YList(<<YDict([prompt |-> YStr("What is 2+2?"),
                                 should |-> YList(<<YStr("Says 4")>>)])>>)>>),
     ParsedText(<<YDict([title |-> YStr("Bench")]),
                  YList(<<YDict([should |-> YStr("Says 4")])>>)>>)}

\* the URL create_blueprint_pr returns
PrUrl(paper_id) == "https://github.com/weval-org/configs/pull/" \o paper_id

----------------------------------------------------------------------------
(* Store write, used by every command step *)

\* a mutating Tracker call that ends in self._save()
Persist(d) ==
    /\ db' = SavedDb(d, now)
    /\ file' = SavedFile(d, now)

\* Tracker(path): a command opens the store
OpenTracker ==
    /\ db' = LoadDb(file, now)
    /\ file' = LoadFile(file, now)

\* the options a command still reads after it selected its entries
NoArgs == [validate |-> FALSE, deterministic |-> FALSE, from_stage |-> None]

\* the end of a command
Finish ==
    /\ pc' = "idle"
    /\ entries' = <<>>
    /\ args' = NoArgs
    /\ yaml_content' = NoText
    /\ last' = <<>>

\* the next entry of the loop, or the end of the command
NextEntry(loop, updated) ==
    IF Len(entries) > 1
    THEN /\ pc' = loop
         /\ entries' = Tail(entries)
         /\ yaml_content' = NoText
         /\ last' = updated
         /\ UNCHANGED args
    ELSE Finish

\* entries = [tracker.get_entry(args.paper_id)] without the None, or the entries in `status`
Select(d, paper_id, status) ==
    IF paper_id # None
    THEN LET i == get_entry(d, CHOOSE id \in paper_id : TRUE)
         IN  IF i = 0 THEN <<>> ELSE <<i>>
    ELSE get_papers_by_status(d, status)

\* --paper-id: absent, or the id of one of these papers
PaperIdArgs(papers) == {None} \cup {Some(p.paper_id) : p \in papers}

\* --paper-id absent
NoPaperId == {None}

\* the command starts: the store is opened and the entries selected
Start(paper_id, status, loop, a) ==
    /\ pc = "idle"
    /\ OpenTracker
    /\ LET sel == Select(LoadDb(file, now), paper_id, status)
       IN  IF sel = <<>>
           THEN Finish
           ELSE /\ pc' = loop
                /\ entries' = sel
                /\ args' = a
                /\ yaml_content' = NoText
                /\ last' = <<>>

\* the entry the loop is at
entry == db.papers[Head(entries)]

\* history: the entry before the update_status call of this step
Before == <<entry>>

----------------------------------------------------------------------------
(* pipeline.py: cmd_discover *)

\* the loop of cmd_discover over the papers found
RECURSIVE AddAll(_, _, _)
AddAll(d, found, t) ==
    IF found = <<>>
    THEN d
    ELSE AddAll(IF has_paper(d, Head(found).paper_id)
                THEN d
                ELSE SavedDb(add_paper(d, Head(found), t), t),
                Tail(found), t)

\* what discover_papers can return, drawn from a catalog
FoundLists(catalog) == UNION {[1..n -> catalog] : n \in 0..MaxFound}

cmd_discover(catalog) ==
    /\ pc = "idle"
    /\ \E found \in FoundLists(catalog) :
        LET d0 == LoadDb(file, now)
            d1 == AddAll(d0, found, now)
        IN  /\ db' = d1
            /\ file' = IF d1 = d0 THEN LoadFile(file, now) ELSE [exists |-> TRUE, data |-> DumpDb(d1)]
    /\ UNCHANGED <<now, call, pc, entries, args, yaml_content, pdfs, analyses, blueprints, last>>

----------------------------------------------------------------------------
(* pipeline.py: cmd_download *)

cmd_download_start(ids) ==
    /\ \E paper_id \in ids : Start(paper_id, DISCOVERED, "download", NoArgs)
    /\ UNCHANGED <<now, call, pdfs, analyses, blueprints>>

\* line 172: the entry is marked DOWNLOADING
cmd_download_mark ==
    /\ pc = "download"
    /\ Persist(update_status(db, entry.paper_id, DOWNLOADING, NoKw, now))
    /\ pc' = "download_fetch"
    /\ last' = Before
    /\ UNCHANGED <<now, call, entries, args, yaml_content, pdfs, analyses, blueprints>>

\* a failed download that puts the entry back for the next run
DownloadFailedBackToDiscovered == DISCOVERED

\* the status a failed download leaves
DownloadFailedStatus == SKIPPED

\* lines 185-195: download_pdf returns a path (the PDF is there) or None
cmd_download_fetch ==
    /\ pc = "download_fetch"
    /\ \E fetched \in (IF entry.paper_id \in pdfs THEN {TRUE} ELSE BOOLEAN) :
        IF fetched
        THEN /\ pdfs' = pdfs \cup {entry.paper_id}
             /\ Persist(update_status(db, entry.paper_id, DOWNLOADED, NoKw, now))
        ELSE /\ pdfs' = pdfs
             /\ Persist(update_status(db, entry.paper_id, DownloadFailedStatus,
                                      [reason |-> "PDF download failed"], now))
    /\ NextEntry("download", Before)
    /\ UNCHANGED <<now, call, analyses, blueprints>>

\* download_pdf raises what its except clause does not catch (lines 49-51 of
\* lib/downloader.py: the PDF cannot be opened or written, an OSError and no
\* requests.RequestException); cmd_download has no handler and the command ends
\* there, the file the write left behind, if any, staying in the directory
cmd_download_raise ==
    /\ pc = "download_fetch"
    /\ entry.paper_id \notin pdfs
    /\ \E left \in BOOLEAN :
        pdfs' = IF left THEN pdfs \cup {entry.paper_id} ELSE pdfs
    /\ Finish
    /\ UNCHANGED <<db, file, now, call, analyses, blueprints>>

----------------------------------------------------------------------------
(* lib/analyzer.py *)

\* the path save_analysis writes and load_analysis reads
AnalysisPath(paper_id) == "data/analyses/" \o paper_id \o ".json"

\* save_analysis: the directory afterwards
save_analysis(dir, analysis) ==
    [id \in DOMAIN dir \cup {analysis.paper_id} |->
        IF id = analysis.paper_id THEN analysis ELSE dir[id]]

\* load_analysis: None when the file is missing
load_analysis(dir, paper_id) ==
    IF paper_id \in DOMAIN dir THEN Some(dir[paper_id]) ELSE None

----------------------------------------------------------------------------
(* pipeline.py: cmd_analyze *)

\* str(e)[:200]
Cut200(msg) == SubSeq(msg, 1, IF Len(msg) < 200 THEN Len(msg) ELSE 200)

cmd_analyze_start(ids) ==
    /\ \E paper_id \in ids : Start(paper_id, DOWNLOADED, "analyze", NoArgs)
    /\ UNCHANGED <<now, call, pdfs, analyses, blueprints>>

\* lines 224-235: without the PDF the entry is skipped, else it is marked ANALYZING
cmd_analyze_mark ==
    /\ pc = "analyze"
    /\ IF entry.paper_id \notin pdfs
       THEN /\ Persist(update_status(db, entry.paper_id, SKIPPED,
                                     [reason |-> "PDF not found locally"], now))
            /\ NextEntry("analyze", Before)
       ELSE /\ Persist(update_status(db, entry.paper_id, ANALYZING, NoKw, now))
            /\ pc' = "analyze_work"
            /\ last' = Before
            /\ UNCHANGED <<entries, args, yaml_content>>
    /\ UNCHANGED <<now, call, pdfs, analyses, blueprints>>

\* a rollback of a failed analysis that goes back too far
RollbackToDiscovered == DISCOVERED

\* the status the except branch of cmd_analyze rolls back to
AnalyzeRollbackStatus == DOWNLOADED

\* the keyword arguments of the update that records a sufficient analysis
AnalyzedKw(analysis) ==
    [analysis_path |-> Some(AnalysisPath(analysis.paper_id)),
     sufficiency_score |-> Some(analysis.sufficiency.confidence),
     prompt_count |-> Some(Len(analysis.prompts)),
     has_explicit_rubric |-> Some(analysis.sufficiency.has_scoring_criteria)]

\* lines 244-280: the analysis returns and is saved
cmd_analyze_done ==
    /\ pc = "analyze_work"
    /\ \E analysis \in AnalysisResults(entry.paper_id) :
        /\ analyses' = save_analysis(analyses, analysis)
        /\ IF analysis.sufficiency.is_sufficient
           THEN Persist(update_status(db, entry.paper_id, ANALYZED, AnalyzedKw(analysis), now))
           ELSE Persist(update_status(db, entry.paper_id, INSUFFICIENT_DATA,
                    [analysis_path |-> Some(AnalysisPath(analysis.paper_id)),
                     reason |-> analysis.sufficiency.reason,
                     sufficiency_score |-> Some(analysis.sufficiency.confidence)], now))
    /\ NextEntry("analyze", Before)
    /\ UNCHANGED <<now, call, pdfs, blueprints>>

\* lines 282-290: analyze_paper or save_analysis raises
cmd_analyze_except ==
    /\ pc = "analyze_work"
    /\ \E e \in FaultMessages :
        Persist(update_status(db, entry.paper_id, AnalyzeRollbackStatus,
                              [reason |-> "Analysis failed: " \o Cut200(e)], now))
    /\ NextEntry("analyze", Before)
    /\ UNCHANGED <<now, call, pdfs, analyses, blueprints>>

----------------------------------------------------------------------------
(* pipeline.py: cmd_generate *)

cmd_generate_start(ids) ==
    /\ \E paper_id \in ids, validate \in BOOLEAN, deterministic \in BOOLEAN :
        Start(paper_id, ANALYZED, "generate",
              [validate |-> validate, deterministic |-> deterministic, from_stage |-> None])
    /\ UNCHANGED <<now, call, pdfs, analyses, blueprints>>

\* the loop's local `analysis`
analysis == analyses[entry.paper_id]

\* lines 333-339: without an analysis the entry is passed over, else it is marked CONVERTING
cmd_generate_load ==
    /\ pc = "generate"
    /\ IF load_analysis(analyses, entry.paper_id) = None
       THEN /\ NextEntry("generate", last)
            /\ UNCHANGED <<db, file>>
       ELSE /\ Persist(update_status(db, entry.paper_id, CONVERTING, NoKw, now))
            /\ pc' = "generate_work"
            /\ last' = Before
            /\ UNCHANGED <<entries, args, yaml_content>>
    /\ UNCHANGED <<now, call, pdfs, analyses, blueprints>>

\* lines 348-355: the candidate text, then line 358
cmd_generate_candidate ==
    /\ pc = "generate_work"
    /\ \E text \in (IF args.deterministic
                    THEN {generate_blueprint_deterministic(analysis, entry)}
                    ELSE GeminiTexts) :
        yaml_content' = text
    /\ pc' = IF args.validate THEN "generate_validate" ELSE "generate_write"
    /\ UNCHANGED <<db, file, now, call, entries, args, pdfs, analyses, blueprints, last>>

\* a driver that writes a candidate with defects as it is
AfterDefectsWrite(deterministic) == "generate_write"

\* where a candidate with defects goes: lines 360-368
AfterDefects(deterministic) == IF ~deterministic THEN "generate_fallback" ELSE "generate_write"

\* lines 359-368: the candidate is validated
cmd_generate_validate ==
    /\ pc = "generate_validate"
    /\ pc' = IF validate_blueprint_yaml(yaml_content) # <<>>
             THEN AfterDefects(args.deterministic)
             ELSE "generate_write"
    /\ UNCHANGED <<db, file, now, call, entries, args, yaml_content, pdfs, analyses, blueprints, last>>

\* lines 372-374: the deterministic fallback
cmd_generate_fallback ==
    /\ pc = "generate_fallback"
    /\ yaml_content' = generate_blueprint_deterministic(analysis, entry)
    /\ pc' = "generate_revalidate"
    /\ UNCHANGED <<db, file, now, call, entries, args, pdfs, analyses, blueprints, last>>

\* the status a failed generation rolls back to
GenerateRollbackStatus == ANALYZED

\* errors[:3]
First3(errors) == SubSeq(errors, 1, IF Len(errors) < 3 THEN Len(errors) ELSE 3)

\* lines 375-383: the fallback's text is validated
cmd_generate_revalidate ==
    /\ pc = "generate_revalidate"
    /\ LET errors == validate_blueprint_yaml(yaml_content)
       IN  IF errors # <<>>
           THEN /\ Persist(update_status(db, entry.paper_id, GenerateRollbackStatus,
                        [reason |-> "Blueprint validation failed: " \o Join("; ", First3(errors))],
                        now))
                /\ NextEntry("generate", Before)
           ELSE /\ pc' = "generate_write"
                /\ UNCHANGED <<db, file, entries, args, yaml_content, last>>
    /\ UNCHANGED <<now, call, pdfs, analyses, blueprints>>

\* lines 386-396: the text is written and the entry is READY_FOR_REVIEW
cmd_generate_write ==
    /\ pc = "generate_write"
    /\ LET filename == blueprint_filename_for_paper(analysis, entry)
           output_path == BlueprintPath(filename)
       IN  /\ blueprints' = write_blueprint(blueprints, yaml_content, output_path)
           /\ Persist(update_status(db, entry.paper_id, READY_FOR_REVIEW,
                        [blueprint_filename |-> Some(filename),
                         blueprint_path |-> Some(output_path)], now))
    /\ NextEntry("generate", Before)
    /\ UNCHANGED <<now, call, pdfs, analyses>>

\* lines 400-408: the Gemini call or the write raises
cmd_generate_except ==
    /\ \/ pc = "generate_work" /\ ~args.deterministic
       \/ pc = "generate_write"
    /\ \E e \in FaultMessages :
        Persist(update_status(db, entry.paper_id, GenerateRollbackStatus,
                              [reason |-> "Generation failed: " \o Cut200(e)], now))
    /\ NextEntry("generate", Before)
    /\ UNCHANGED <<now, call, pdfs, analyses, blueprints>>

----------------------------------------------------------------------------
(* pipeline.py: cmd_retry *)

FromStages == {"download", "analyze", "generate"}

\* a default of --from-stage that restarts from the analysis
FromStageAnalyze == "analyze"

\* the parser's default for --from-stage (main, and the getattr of line 537)
FromStageDefault == "download"

\* lines 537-542: the status the entries are reset to
reset_status(from_stage_arg) ==
    LET from_stage == IF from_stage_arg = None THEN FromStageDefault
                      ELSE CHOOSE x \in from_stage_arg : TRUE
    IN  IF from_stage = "download" THEN DISCOVERED
        ELSE IF from_stage = "analyze" THEN DOWNLOADED
        ELSE IF from_stage = "generate" THEN ANALYZED
        ELSE DISCOVERED

\* lines 518-529: the entry named, whatever its status, or the entries that failed
RetrySelect(d, paper_id) ==
    IF paper_id # None
    THEN Select(d, paper_id, DISCOVERED)
    ELSE get_papers_by_status(d, INSUFFICIENT_DATA) \o get_papers_by_status(d, SKIPPED)

cmd_retry_start(ids) ==
    /\ pc = "idle"
    /\ OpenTracker
    /\ \E paper_id \in ids, from_stage \in {None} \cup {Some(x) : x \in FromStages} :
        LET sel == RetrySelect(LoadDb(file, now), paper_id)
        IN  IF sel = <<>>
            THEN Finish
            ELSE /\ pc' = "retry"
                 /\ entries' = sel
                 /\ args' = [NoArgs EXCEPT !.from_stage = from_stage]
                 /\ yaml_content' = NoText
                 /\ last' = <<>>
    /\ UNCHANGED <<now, call, pdfs, analyses, blueprints>>

\* lines 544-546: one entry is reset
cmd_retry_reset ==
    /\ pc = "retry"
    /\ Persist(update_status(db, entry.paper_id, reset_status(args.from_stage),
                             [reason |-> ""], now))
    /\ NextEntry("retry", Before)
    /\ UNCHANGED <<now, call, pdfs, analyses, blueprints>>

----------------------------------------------------------------------------
(* pipeline.py: cmd_submit *)

cmd_submit_start(ids) ==
    /\ \E paper_id \in ids : Start(paper_id, APPROVED, "submit", NoArgs)
    /\ UNCHANGED <<now, call, pdfs, analyses, blueprints>>

\* lines 569-581: what makes the loop pass over an entry
SubmitSkips(e) ==
    \/ e.blueprint_path = None
    \/ \A path \in e.blueprint_path : path \notin DOMAIN blueprints
    \/ load_analysis(analyses, e.paper_id) = None

\* lines 568-590: create_blueprint_pr returns a URL or nothing
cmd_submit_entry ==
    /\ pc = "submit"
    /\ \E created \in BOOLEAN :
        IF ~SubmitSkips(entry) /\ created
        THEN /\ Persist(update_status(db, entry.paper_id, PR_CREATED,
                                      [pr_url |-> Some(PrUrl(entry.paper_id))], now))
             /\ NextEntry("submit", Before)
        ELSE /\ UNCHANGED <<db, file>>
             /\ NextEntry("submit", last)
    /\ UNCHANGED <<now, call, pdfs, analyses, blueprints>>

----------------------------------------------------------------------------
(* The human review, between commands: the tracking file is edited by hand *)

\* the canonical successors no command of pipeline.py sets
ReviewMoves ==
    {<<"ready_for_review", "approved">>, <<"ready_for_review", "denied">>,
     <<"pr_created", "uploaded">>}

Review ==
    /\ pc = "idle"
    /\ file.exists
    /\ \E i \in 1..Len(file.data.papers), m \in ReviewMoves :
        /\ file.data.papers[i].status = m[1]
        /\ file' = [file EXCEPT !.data.papers[i].status = m[2]]
    /\ UNCHANGED <<db, now, call, pc, entries, args, yaml_content, pdfs, analyses, blueprints, last>>

----------------------------------------------------------------------------

(* lib/tracker.py called by a client that holds a Tracker: pc = "tracker" *)

\* the papers a client passes to add_paper: the catalog's, and the first of them
\* with other metadata
TrackerPapers == Papers \cup {Paper(PaperIdList[1], "Eval Suite (v2)")}

\* the status a client passes to update_status, and the ones it filters by
TrackerStatuses == {SKIPPED}
FilterStatuses == {DISCOVERED, SKIPPED}

\* the keyword arguments a client passes to update_status: none, a field with a
\* name that is no attribute, the name of a method, the name of a field that
\* add_paper sets
TrackerKwargs ==
    {NoKw,
     [reason |-> "PDF download failed", hint |-> "x"],
     [model_dump |-> "x"],
     [title |-> "Eval Suite (v2)"]}

\* the clock when the call reads it: time may have passed since the last call
Times == {t \in {now, now + 1} : t <= MaxClock}

\* no call on a Tracker was made by a client
NoCall == [op |-> "none"]

\* Tracker(path), lines 19-38: the client loads the store
TrackerOpen ==
    /\ pc \in {"idle", "tracker"}
    /\ \E t \in Times :
        /\ now' = t
        /\ db' = LoadDb(file, t)
        /\ file' = LoadFile(file, t)
    /\ pc' = "tracker"
    /\ call' = [op |-> "Tracker"]
    /\ UNCHANGED <<entries, args, yaml_content, pdfs, analyses, blueprints, last>>

\* lines 70-92
TrackerAddPaper ==
    /\ pc = "tracker"
    /\ \E paper \in TrackerPapers, t \in Times :
        LET d == add_paper(db, paper, t)
        IN  /\ now' = t
            /\ IF add_paper_saves(db, paper)
               THEN /\ db' = SavedDb(d, t)
                    /\ file' = SavedFile(d, t)
               ELSE UNCHANGED <<db, file>>
            /\ call' = [op |-> "add_paper", paper |-> paper, raised |-> FALSE,
                        appended |-> add_paper_saves(db, paper),
                        ret |-> add_paper_returns(db, paper, t)]
    /\ UNCHANGED <<pc, entries, args, yaml_content, pdfs, analyses, blueprints, last>>

\* lines 94-112
TrackerUpdateStatus ==
    /\ pc = "tracker"
    /\ \E paper_id \in PaperIds, status \in TrackerStatuses, kwargs \in TrackerKwargs, t \in Times :
        LET i == get_entry(db, paper_id)
            c == [op |-> "update_status", paper_id |-> paper_id, status |-> status,
                  kwargs |-> kwargs, raised |-> FALSE, ret |-> None]
        IN  /\ now' = t
            /\ IF i = 0
               THEN /\ UNCHANGED <<db, file>>
                    /\ call' = c
               ELSE IF SetattrRaises(db.papers[i], kwargs)
               THEN /\ \E e \in InterruptedEntries(db.papers[i], status, kwargs, t) :
                        db' = [db EXCEPT !.papers[i] = e]
                    /\ UNCHANGED file
                    /\ call' = [c EXCEPT !.raised = TRUE]
               ELSE LET d == update_status(db, paper_id, status, kwargs, t)
                    IN  /\ db' = SavedDb(d, t)
                        /\ file' = SavedFile(d, t)
                        /\ call' = [c EXCEPT !.ret = Some(d.papers[i])]
    /\ UNCHANGED <<pc, entries, args, yaml_content, pdfs, analyses, blueprints, last>>

\* lines 59-64
TrackerGetEntry ==
    /\ pc = "tracker"
    /\ \E paper_id \in PaperIds :
        LET i == get_entry(db, paper_id)
        IN  call' = [op |-> "get_entry", paper_id |-> paper_id,
                     ret |-> IF i = 0 THEN None ELSE Some(db.papers[i])]
    /\ UNCHANGED <<db, file, now, pc, entries, args, yaml_content, pdfs, analyses, blueprints, last>>

\* the entries at these indices
EntriesAt(d, idx) == [k \in 1..Len(idx) |-> d.papers[idx[k]]]

\* lines 114-116
TrackerGetPapersByStatus ==
    /\ pc = "tracker"
    /\ \E status \in FilterStatuses :
        call' = [op |-> "get_papers_by_status", status |-> status,
                 ret |-> EntriesAt(db, get_papers_by_status(db, status))]
    /\ UNCHANGED <<db, file, now, pc, entries, args, yaml_content, pdfs, analyses, blueprints, last>>

\* lines 118-120
get_all_papers(d) == d.papers

TrackerGetAllPapers ==
    /\ pc = "tracker"
    /\ call' = [op |-> "get_all_papers", ret |-> get_all_papers(db)]
    /\ UNCHANGED <<db, file, now, pc, entries, args, yaml_content, pdfs, analyses, blueprints, last>>

----------------------------------------------------------------------------


Init ==
    /\ db = TrackingDatabase(0)
    /\ file = NoFile
    /\ now = 0
    /\ pc = "idle"
    /\ entries = <<>>
    /\ args = NoArgs
    /\ yaml_content = NoText
    /\ pdfs = {}
    /\ analyses = <<>>
    /\ blueprints = <<>>
    /\ last = <<>>
    /\ call = NoCall

\* the steps the commands up to the review take once started
Steps ==
    \/ cmd_download_mark
    \/ cmd_download_fetch
    \/ cmd_download_raise
    \/ cmd_analyze_mark
    \/ cmd_analyze_done
    \/ cmd_analyze_except
    \/ cmd_generate_load
    \/ cmd_generate_candidate
    \/ cmd_generate_validate
    \/ cmd_generate_fallback
    \/ cmd_generate_revalidate
    \/ cmd_generate_write
    \/ cmd_generate_except
    \/ cmd_retry_reset

\* the commands that take the entries of the whole catalog from discovery to the
\* review, none with --paper-id
NextBatch ==
    \/ cmd_discover(Papers)
    \/ cmd_download_start(NoPaperId)
    \/ cmd_analyze_start(NoPaperId)
    \/ cmd_generate_start(NoPaperId)
    \/ cmd_retry_start(NoPaperId)
    \/ Steps

SpecBatch == Init /\ [][NextBatch]_vars

\* one paper is followed through every command, with and without --paper-id
OnePaper == {Paper(PaperIdList[1], t) : t \in Titles}

NextPaper ==
    \/ cmd_discover(OnePaper)
    \/ cmd_download_start(PaperIdArgs(OnePaper))
    \/ cmd_analyze_start(PaperIdArgs(OnePaper))
    \/ cmd_generate_start(PaperIdArgs(OnePaper))
    \/ cmd_retry_start(PaperIdArgs(OnePaper))
    \/ cmd_submit_start(PaperIdArgs(OnePaper))
    \/ Steps
    \/ cmd_submit_entry
    \/ Review

SpecPaper == Init /\ [][NextPaper]_vars

\* a client calls the Tracker's methods in any order
NextTracker ==
    \/ TrackerOpen
    \/ TrackerAddPaper
    \/ TrackerUpdateStatus
    \/ TrackerGetEntry
    \/ TrackerGetPapersByStatus
    \/ TrackerGetAllPapers

SpecTracker == Init /\ [][NextTracker]_vars

----------------------------------------------------------------------------
(* lib/validators.py called on a text *)

\* headers: with a key the scan of lines 48-59 knows, without one, and with
\* one together with a key of the scan of lines 60-62
MarkedHeader == YDict([title |-> YStr("X")])
FreeHeader == YDict([description |-> YStr("About X"), tags |-> YList(<<YStr("benchmark")>>)])
MixedHeader == YDict([title |-> YStr("X"), ideal |-> YStr("hi")])
Headers == {MarkedHeader, FreeHeader, MixedHeader}

\* items that pass lines 78-110: a prompt string; an id, messages and a rubric list
ValidItems ==
    {YDict([prompt |-> YStr("hi")]),
     YDict([id |-> YStr("q1"), messages |-> YList(<<YStr("hi")>>),
            should |-> YList(<<YStr("Says hi")>>)])}

\* an item with a scalar rubric
ScalarRubricItem == YDict([prompt |-> YStr("hi"), should |-> YStr("not-a-list")])

\* an item with its text under "promptText"; an item with an id, no text and
\* two rubrics that are no lists
PromptTextItem == YDict([promptText |-> YStr("hi")])
BareRubricItem == YDict([id |-> YStr("q2"), should |-> YStr("x"), points |-> YInt(3)])

\* the non-empty lists of valid items
ValidItemLists == UNION {[1..n -> ValidItems] : n \in 1..MaxItems}

\* a header with the items under its "prompts" key
WithPrompts(header, prompts) ==
    YDict([k \in DOMAIN header.map \cup {"prompts"} |->
            IF k = "prompts" THEN prompts ELSE header.map[k]])

\* the four structures of lines 33-67 for a header and a list of items
HeaderThenList(header, items) == <<header, YList(items)>>
SingleWithPrompts(header, items) == <<WithPrompts(header, YList(items))>>
BareList(items) == <<YList(items)>>
HeaderThenItems(header, items) == <<header>> \o items

\* the documents a text can hold
Blocks ==
    Headers \cup ValidItems
    \cup {YList(items) : items \in ValidItemLists}
    \cup {WithPrompts(MarkedHeader, YList(items)) : items \in ValidItemLists}
    \cup {YNull, YStr("junk"), ScalarRubricItem, YList(<<ScalarRubricItem>>),
          YList(<<YStr("junk")>>), WithPrompts(FreeHeader, YStr("junk")),
          PromptTextItem, BareRubricItem,
          YList(<<BareRubricItem, PromptTextItem, ScalarRubricItem>>),
          YList(<<YStr("junk"), ScalarRubricItem>>),
          YDict(<<>>), YList(<<>>), YInt(0)}

BlockSeqs == UNION {[1..n -> Blocks] : n \in 0..MaxBlocks}

\* the texts validate_blueprint_yaml is called with
ValidatorTexts ==
    {ParsedText(docs) : docs \in BlockSeqs}
    \cup {ParsedText(docs) : docs \in
            {SingleWithPrompts(h, items) : h \in Headers, items \in ValidItemLists}}
    \cup {BrokenText("mapping values are not allowed here"),
          UnloadableText("ValueError", "day is out of range for month"),
          UnloadableText("RecursionError", "maximum recursion depth exceeded")}

\* a caller holds a text
InitValidator ==
    /\ db = TrackingDatabase(0)
    /\ file = NoFile
    /\ now = 0
    /\ pc = "validate"
    /\ entries = <<>>
    /\ args = NoArgs
    /\ yaml_content \in ValidatorTexts
    /\ pdfs = {}
    /\ analyses = <<>>
    /\ blueprints = <<>>
    /\ last = <<>>
    /\ call = NoCall

\* validate_blueprint_yaml(content), lines 13-112: it returns a list or raises
ValidatorCall ==
    /\ pc = "validate"
    /\ pc' = "validated"
    /\ call' = IF validate_blueprint_yaml_raises(yaml_content)
               THEN [op |-> "validate_blueprint_yaml", raised |-> TRUE, ret |-> None]
               ELSE [op |-> "validate_blueprint_yaml", raised |-> FALSE,
                     ret |-> Some(validate_blueprint_yaml(yaml_content))]
    /\ UNCHANGED <<db, file, now, entries, args, yaml_content, pdfs, analyses, blueprints, last>>

NextValidator == ValidatorCall

SpecValidator == InitValidator /\ [][NextValidator]_vars

----------------------------------------------------------------------------
(* A caller of generate_blueprint_deterministic that validates what it gets *)

MaxPrompts == 2
MaxTags == 3

\* ExtractedPrompt with every optional field drawn
PromptTexts == {"What is 2+2?", "123", ""}
Ideals == {None, Some("4"), Some("")}
CriteriaLists ==
    {<<>>,
     <<"Answer: 4">>,
     <<"Explains the sum", "Must contain: \"four\"">>,
     <<"Contains:  x ", "Correct answer: 'y'", "Be concise: yes">>}
SystemPrompts == {None, Some("Be brief")}
Categories == {None, Some("math")}

ExtractedPrompts ==
    {[ExtractedPrompt(id, prompt_text, ideal_response, scoring_criteria)
        EXCEPT !.system_prompt = system_prompt, !.category = category] :
        id \in {"", "q1"}, prompt_text \in PromptTexts, ideal_response \in Ideals,
        scoring_criteria \in CriteriaLists, system_prompt \in SystemPrompts,
        category \in Categories}

\* the prompts of the longer lists
ListedPrompts ==
    {ExtractedPrompt("", "What is 2+2?", Some("4"), <<"Answer: 4">>),
     ExtractedPrompt("q1", "123", None, <<>>),
     ExtractedPrompt("", "", None, <<"Explains the sum", "Contains:  x ">>)}

PromptLists ==
    {<<p>> : p \in ExtractedPrompts}
    \cup UNION {[1..n -> ListedPrompts] : n \in 2..MaxPrompts}

\* the tags an analysis carries
TagPool ==
    {"NLP", "nlp", "The Benchmark", "!!!", "Question Answering",
     "Multilingual Question Answering Tasks"}
TagLists == UNION {[1..n -> TagPool] : n \in 0..MaxTags}

\* PaperAnalysis records with at least one prompt: every prompt with no tags,
\* every tag list with one prompt
GeneratorAnalyses ==
    {[PaperAnalysis(PaperIdList[1], benchmark_name, prompts, Sufficient)
        EXCEPT !.system_prompt = system_prompt] :
        benchmark_name \in {"", "Bench"}, prompts \in PromptLists,
        system_prompt \in SystemPrompts}
    \cup {[PaperAnalysis(PaperIdList[1], "Bench", <<p>>, Sufficient) EXCEPT !.tags = tags] :
            p \in {ExtractedPrompt("", "What is 2+2?", Some("4"), <<"Answer: 4">>)},
            tags \in TagLists}

GeneratorPapers == {Paper(PaperIdList[1], t) : t \in {"Eval Suite", "123"}}

\* a caller holds an analysis and the paper it is of
InitGenerator ==
    /\ \E paper \in GeneratorPapers :
          db = [TrackingDatabase(0) EXCEPT !.papers = <<NewEntry(paper, 0)>>]
    /\ file = NoFile
    /\ now = 0
    /\ pc = "generator"
    /\ entries = <<>>
    /\ args = NoArgs
    /\ yaml_content = NoText
    /\ pdfs = {}
    /\ \E a \in GeneratorAnalyses : analyses = save_analysis(<<>>, a)
    /\ blueprints = <<>>
    /\ last = <<>>
    /\ call = NoCall

\* generate_blueprint_deterministic(analysis, paper), lines 60-113
GeneratorCall ==
    /\ pc = "generator"
    /\ db.papers # <<>>
    /\ db.papers[1].paper_id \in DOMAIN analyses
    /\ pc' = "validate"
    /\ yaml_content' =
         generate_blueprint_deterministic(analyses[db.papers[1].paper_id], db.papers[1])
    /\ call' = [op |-> "generate_blueprint_deterministic", raised |-> FALSE, ret |-> None]
    /\ UNCHANGED <<db, file, now, entries, args, pdfs, analyses, blueprints, last>>

NextGenerator == GeneratorCall \/ ValidatorCall

SpecGenerator == InitGenerator /\ [][NextGenerator]_vars

----------------------------------------------------------------------------
(* lib/gemini_client.py: GeminiClient._call_with_retry and a caller of it *)

MaxRetries == 3
BaseDelays == {1, 2}

\* sub in s
Contains(s, sub) ==
    \E i \in 1..(Len(s) - Len(sub) + 1) : SubSeq(s, i, i + Len(sub) - 1) = sub

\* what one call of client.models.generate_content gives: a response with a
\* text, a response with no text and a finish reason, one with neither, or an
\* exception of the API with its message
TextResponse(text) == [kind |-> "Text", message |-> text]
BlockedResponse == [kind |-> "Blocked", message |-> "Response blocked: FinishReason.SAFETY"]
EmptyResponse == [kind |-> "Empty", message |-> "Empty response from Gemini"]
ApiFault(kind, message) == [kind |-> kind, message |-> message]

ModelOutcomes ==
    {TextResponse("{}"), TextResponse(""), BlockedResponse, EmptyResponse,
     ApiFault("RateLimited", "429 RESOURCE_EXHAUSTED"),
     ApiFault("ServerError", "500 INTERNAL"),
     ApiFault("ServerError", "503 UNAVAILABLE"),
     ApiFault("ServerError", "504 DEADLINE_EXCEEDED"),
     ApiFault("Other", "400 INVALID_ARGUMENT"),
     ApiFault("Other", "400 INVALID_ARGUMENT. The input token count (1500000) exceeds the maximum")}

\* any(code in error_str for code in ["429", "503", "500"])
IsRetriable(error_str) == \E code \in {"429", "503", "500"} : Contains(error_str, code)

\* a loop that runs once more
InRangeAndOne(attempt, max_retries) == attempt <= max_retries

\* for attempt in range(self.max_retries)
InRange(attempt, max_retries) == attempt < max_retries

\* the call as it starts: last_error = None, nothing called, nothing slept
CallWithRetry(max_retries, base_delay) ==
    [op |-> "_call_with_retry", max_retries |-> max_retries, base_delay |-> base_delay,
     attempt |-> 0, outcomes |-> <<>>, last_error |-> None, slept |-> <<>>,
     raised |-> FALSE, exception |-> "", error |-> "", ret |-> None]

\* lines 143-172: one pass of the loop, the model call giving outcome o
AfterAttempt(c, o) ==
    IF o.kind = "Text"
    THEN [c EXCEPT !.outcomes = Append(@, o), !.ret = Some(o.message)]
    ELSE IF IsRetriable(o.message)
    THEN [c EXCEPT !.outcomes = Append(@, o), !.last_error = Some(o.message),
                   !.slept = Append(@, c.base_delay * 2^(c.attempt)),
                   !.attempt = @ + 1]
    ELSE [c EXCEPT !.outcomes = Append(@, o), !.last_error = Some(o.message),
                   !.raised = TRUE,
                   !.exception = IF o.kind \in {"Blocked", "Empty"} THEN "ValueError" ELSE "APIError",
                   !.error = o.message]

\* lines 175-177: the loop is over
AfterLoop(c) ==
    [c EXCEPT !.raised = TRUE, !.exception = "RuntimeError",
              !.error = "Gemini API failed after " \o ToString(c.max_retries)
                        \o " attempts: " \o (IF c.last_error = None THEN "None"
                                              ELSE OrEmpty(c.last_error))]

\* a caller starts _call_with_retry on a client made by get_gemini_client
InitGemini ==
    /\ db = TrackingDatabase(0)
    /\ file = NoFile
    /\ now = 0
    /\ pc = "call_with_retry"
    /\ entries = <<>>
    /\ args = NoArgs
    /\ yaml_content = NoText
    /\ pdfs = {}
    /\ analyses = <<>>
    /\ blueprints = <<>>
    /\ last = <<>>
    /\ \E max_retries \in 0..MaxRetries, base_delay \in BaseDelays :
          call = CallWithRetry(max_retries, base_delay)

\* one pass of the loop
GeminiAttempt ==
    /\ pc = "call_with_retry"
    /\ InRange(call.attempt, call.max_retries)
    /\ \E o \in ModelOutcomes : call' = AfterAttempt(call, o)
    /\ pc' = IF call'.raised THEN "raised"
             ELSE IF call'.ret # None THEN "returned"
             ELSE "call_with_retry"
    /\ UNCHANGED <<db, file, now, entries, args, yaml_content, pdfs, analyses, blueprints, last>>

\* the loop ends without a return
GeminiExhausted ==
    /\ pc = "call_with_retry"
    /\ ~InRange(call.attempt, call.max_retries)
    /\ call' = AfterLoop(call)
    /\ pc' = "raised"
    /\ UNCHANGED <<db, file, now, entries, args, yaml_content, pdfs, analyses, blueprints, last>>

NextGemini == GeminiAttempt \/ GeminiExhausted

SpecGemini == InitGemini /\ [][NextGemini]_vars

\* the loop is straight-line code on one thread and every model call returns
\* or raises: a pass that can be made is made
SpecGeminiLive == SpecGemini /\ WF_vars(NextGemini)

----------------------------------------------------------------------------
(* The stages of the stored entries *)

\* the stage of the i-th entry of the tracking file
Stage(i) == file.data.papers[i].status

\* the reason of the i-th entry of the tracking file
Reason(i) == file.data.papers[i].reason

\* the entries of the tracking file
Stored == 1..Len(file.data.papers)

\* the canonical forward path, the outcome of analysis being analyzed or insufficient_data
CanonicalSuccessor ==
    {<<"discovered", "downloading">>, <<"downloading", "downloaded">>,
     <<"downloaded", "analyzing">>, <<"analyzing", "analyzed">>,
     <<"analyzing", "insufficient_data">>, <<"analyzed", "insufficient_data">>,
     <<"analyzed", "converting">>, <<"converting", "ready_for_review">>,
     <<"ready_for_review", "approved">>, <<"approved", "pr_created">>,
     <<"pr_created", "uploaded">>}

NamedRollback == {<<"analyzing", "downloaded">>, <<"converting", "analyzed">>}

OffPath == {"skipped", "denied"}

RetryEligible == {"insufficient_data", "skipped", "denied"}

Terminal == {"uploaded", "denied", "skipped"}

----------------------------------------------------------------------------
(* C1: the stage changes *)

\* C1: every stage change of a stored entry is a step to the canonical successor, a
\* move to skipped or denied, a named rollback (analyzing -> downloaded,
\* converting -> analyzed) or a reset made by retry; no command moves an entry to a
\* skipped-over later stage or backward otherwise.
C1_StageChangesFollowThePath ==
    [][\A i \in Stored :
        \/ Stage(i)' = Stage(i)
        \/ <<Stage(i), Stage(i)'>> \in CanonicalSuccessor \cup NamedRollback
        \/ Stage(i)' \in OffPath
        \/ pc = "retry"]_vars

----------------------------------------------------------------------------
(* C2: one entry per paper *)

\* C2: in every reachable state no two entries of the store, in memory or in the
\* tracking file, share a paper_id.
C2_OneEntryPerPaper ==
    /\ \A i, j \in Stored :
          i # j => file.data.papers[i].paper_id # file.data.papers[j].paper_id
    /\ \A i, j \in 1..Len(db.papers) :
          i # j => db.papers[i].paper_id # db.papers[j].paper_id

\* discoveries have filled the store with as many entries as there are papers
C2_StoreFilled ==
    /\ Len(file.data.papers) = MaxPapers
    /\ MaxPapers > 1
    /\ pc = "idle"

----------------------------------------------------------------------------
(* C3: the rollback targets *)

\* C3: an entry that leaves analyzing without an analysis outcome (analyzed,
\* insufficient_data) is in downloaded, never in discovered; an entry that leaves
\* converting without a blueprint (ready_for_review) is in analyzed.
C3_FailureRollsBackOneStage ==
    [][\A i \in Stored :
        /\ (Stage(i) = "analyzing"
                /\ Stage(i)' \notin {"analyzing", "analyzed", "insufficient_data"})
              => Stage(i)' = "downloaded"
        /\ (Stage(i) = "converting" /\ Stage(i)' \notin {"converting", "ready_for_review"})
              => Stage(i)' = "analyzed"]_vars

\* one entry was rolled back from analyzing and another from converting
C3_BothRolledBack ==
    \E i, j \in Stored :
        /\ Stage(i) = "downloaded"
        /\ StartsWith(Reason(i), "Analysis failed: ")
        /\ Stage(j) = "analyzed"
        /\ StartsWith(Reason(j), "Generation failed: ")

----------------------------------------------------------------------------
(* C4: what retry resets *)

\* C4: retry changes the stage of an entry only when that stage is retry-eligible
\* (insufficient_data, skipped, denied); an entry in any other stage keeps its stage.
C4_RetryOnlyMovesEligible ==
    [][pc = "retry" =>
        \A i \in Stored : Stage(i) \notin RetryEligible => Stage(i)' = Stage(i)]_vars

----------------------------------------------------------------------------
(* C5: the default of retry *)

\* C5, as the code has it: a retry given no --from-stage resets an entry in
\* insufficient_data to discovered, the stage its default "download" maps to.
C5_DefaultRetryResetsToDiscovered ==
    [][(pc = "retry" /\ args.from_stage = None) =>
        \A i \in Stored :
            (i = Head(entries) /\ Stage(i) = "insufficient_data")
                => Stage(i)' = "discovered"]_vars

\* C5, as stated: a retry given no --from-stage resets an entry in insufficient_data
\* to downloaded, the stage before the failed analysis.
C5_DefaultRetryResetsToDownloaded ==
    [][(pc = "retry" /\ args.from_stage = None) =>
        \A i \in Stored :
            (i = Head(entries) /\ Stage(i) = "insufficient_data")
                => Stage(i)' = "downloaded"]_vars

\* a retry without --from-stage has just reset an entry that was in insufficient_data
C5_DefaultRetryHasReset ==
    /\ pc = "retry"
    /\ args.from_stage = None
    /\ last # <<>>
    /\ last[1].status = INSUFFICIENT_DATA
    /\ Stage(get_entry(db, last[1].paper_id)) = "discovered"

----------------------------------------------------------------------------
(* C6: where retry resets to *)

\* the position of a stage on the canonical path
Rank(stage) ==
    CASE stage = "discovered" -> 1
      [] stage = "downloading" -> 2
      [] stage = "downloaded" -> 3
      [] stage = "analyzing" -> 4
      [] stage = "analyzed" -> 5
      [] stage = "insufficient_data" -> 6
      [] stage = "converting" -> 6
      [] stage = "ready_for_review" -> 7
      [] stage = "approved" -> 8
      [] stage = "pr_created" -> 9
      [] stage = "uploaded" -> 10

\* the stage whose work failed, for an entry a driver left in insufficient_data or skipped
FailedAt(e) ==
    IF e.status = "skipped" /\ e.reason = "PDF download failed"
    THEN "downloading"
    ELSE "analyzing"

\* C6: the stage retry resets a failed entry to is strictly earlier on the canonical
\* path than the stage at which the entry failed, so retry never places an entry in
\* a stage it has not reached before.
C6_RetryResetsBeforeTheFailure ==
    [][pc = "retry" =>
        \A i \in Stored :
            (Stage(i) \in {"insufficient_data", "skipped"} /\ i = Head(entries))
                => Rank(Stage(i)') < Rank(FailedAt(file.data.papers[i]))]_vars

----------------------------------------------------------------------------
(* C7: what retry changes *)

\* the fields retry may change
RetryFields == {"status", "reason", "last_updated"}

\* C7: the entry a retry step resets has the empty reason afterwards and differs from
\* what it was in status, reason and last_updated at most; every other entry, and
\* the number and order of the entries, stay as they were, in the tracking file and
\* in memory.
C7_RetryChangesStageAndReasonOnly ==
    [][pc = "retry" =>
        \A i \in {Head(entries)} :
            /\ Reason(i)' = ""
            /\ db'.papers[i].reason = ""
            /\ DOMAIN file'.data.papers = DOMAIN file.data.papers
            /\ DOMAIN db'.papers = DOMAIN db.papers
            /\ \A f \in EntryFields \ RetryFields :
                  /\ file'.data.papers[i][f] = file.data.papers[i][f]
                  /\ db'.papers[i][f] = db.papers[i][f]
            /\ \A j \in Stored \ {i} :
                  /\ file'.data.papers[j] = file.data.papers[j]
                  /\ db'.papers[j] = db.papers[j]]_vars

\* a retry has just reset an entry that had a reason and an analysis, next to
\* another entry
C7_RetryHasReset ==
    /\ pc = "retry"
    /\ last # <<>>
    /\ last[1].reason # ""
    /\ last[1].analysis_path # None
    /\ Len(file.data.papers) > 1
    /\ Reason(get_entry(db, last[1].paper_id)) = ""

----------------------------------------------------------------------------
(* C8: the terminal stages *)

\* C8: an entry in a terminal stage (uploaded, denied, skipped) keeps its stage under
\* download, analyze, generate and submit; only retry moves it.
C8_TerminalStagesStay ==
    [][\A i \in Stored :
        (Stage(i) \in Terminal /\ pc # "retry") => Stage(i)' = Stage(i)]_vars

----------------------------------------------------------------------------
(* C9: the reason after a stage succeeds *)

\* C9: an entry whose reason was set by a failed analysis has an empty reason once an
\* analysis succeeds (analyzing -> analyzed), and an entry whose reason was set by a
\* failed generation has an empty reason once a generation succeeds
\* (converting -> ready_for_review).
C9_ReasonClearedOnSuccess ==
    [][\A i \in Stored :
        /\ (/\ Stage(i) = "analyzing"
            /\ Stage(i)' = "analyzed"
            /\ StartsWith(Reason(i), "Analysis failed: ")) => Reason(i)' = ""
        /\ (/\ Stage(i) = "converting"
            /\ Stage(i)' = "ready_for_review"
            /\ \/ StartsWith(Reason(i), "Generation failed: ")
               \/ StartsWith(Reason(i), "Blueprint validation failed: ")) => Reason(i)' = ""]_vars

----------------------------------------------------------------------------
(* C10: the fallback of generate *)

\* the text the deterministic generator gives for the i-th entry
DeterministicText(i) ==
    generate_blueprint_deterministic(analyses[db.papers[i].paper_id], db.papers[i])

\* the blueprint written for the i-th entry, if its path is recorded and written
BlueprintOf(i) ==
    {blueprints[path] : path \in file.data.papers[i].blueprint_path \cap DOMAIN blueprints}

----------------------------------------------------------------------------
(* C11: what generate writes for an entry it moves to ready_for_review *)

\* C11 as stated: with every combination of --validate and --deterministic, an
\* entry that generate moves from converting to ready_for_review has a written
\* blueprint text in which the validator finds no defect.
C11_ReadyOnlyWithValidText ==
    [][\A i \in Stored :
        (/\ pc = "generate_write"
         /\ Stage(i) = "converting"
         /\ Stage(i)' = "ready_for_review")
            => /\ BlueprintOf(i)' # {}
               /\ \A text \in BlueprintOf(i)' : validate_blueprint_yaml(text) = <<>>]_vars

\* C11 amended: the same for the runs with --validate only; without it the
\* candidate is written as generated.
C11_ReadyOnlyWithValidTextWhenValidating ==
    [][\A i \in Stored :
        (/\ pc = "generate_write"
         /\ args.validate
         /\ Stage(i) = "converting"
         /\ Stage(i)' = "ready_for_review")
            => /\ BlueprintOf(i)' # {}
               /\ \A text \in BlueprintOf(i)' : validate_blueprint_yaml(text) = <<>>]_vars

\* a generate run with --validate has just written the AI's candidate, which the
\* validator passed, and left the entry in ready_for_review
C11_ValidatedCandidateWritten ==
    /\ pc = "generate"
    /\ args.validate
    /\ ~args.deterministic
    /\ last # <<>>
    /\ last[1].status = CONVERTING
    /\ \E i \in Stored :
        /\ db.papers[i].paper_id = last[1].paper_id
        /\ Stage(i) = "ready_for_review"
        /\ BlueprintOf(i) # {DeterministicText(i)}
        /\ \E text \in BlueprintOf(i) : validate_blueprint_yaml(text) = <<>>

----------------------------------------------------------------------------
(* C12: generate and an entry without an analysis record *)

\* C12: when generate finds no analysis record for the entry it is at, the entry
\* is rolled back as a failure: it is in analyzed afterwards, with a reason that
\* is not empty, in the tracking file.
C12_MissingAnalysisRollsBack ==
    [][\A i \in {entries[k] : k \in DOMAIN entries \cap {1}} :
        (/\ pc = "generate"
         /\ load_analysis(analyses, db.papers[i].paper_id) = None)
            => /\ Stage(i)' = "analyzed"
               /\ Reason(i)' # ""]_vars

----------------------------------------------------------------------------
(* C13: a fault while one entry is processed *)

\* the stages an entry is in while a driver works on it
Transient == {"downloading", "analyzing", "converting"}

\* C13: whatever fault the PDF fetch, the analysis, the generation or a file write
\* raises, download, analyze and generate go through every entry they selected
\* (the command ends at the last selected entry only) and each entry they leave,
\* for the next one or at the end of the command, is in no transient stage.
C13_FaultsNeverStopADriver ==
    [][\A i \in {entries[k] : k \in DOMAIN entries \cap {1}} :
        (/\ pc \notin {"idle", "retry", "submit"}
         /\ entries' # entries)
            => /\ Stage(i)' \notin Transient
               /\ pc' = "idle" => Len(entries) = 1]_vars

----------------------------------------------------------------------------
(* C14, C15: add_paper with an id that is tracked already *)

C15_DuplicateAddChangesNothing ==
    [][(/\ call'.op = "add_paper"
        /\ get_entry(db, call'.paper.paper_id) # 0)
          => /\ db' = db
             /\ file' = file]_vars

\* add_paper was called with other metadata for a tracked id, the store holding
\* two entries, later than the entry was added
C15_DuplicateAddLeftTwoEntries ==
    /\ call.op = "add_paper"
    /\ call.ret.title # call.paper.title
    /\ Len(db.papers) = 2
    /\ Len(file.data.papers) = 2
    /\ now > call.ret.discovery_date

----------------------------------------------------------------------------
(* C16: add_paper with a new id *)

\* the fields of an entry that are written once, from the paper
WriteOnce == {"paper_id", "title", "authors", "arxiv_url", "pdf_url"}

\* the fields of an entry that refer to what the pipeline produced for it
ArtifactRefs == {"analysis_path", "blueprint_filename", "blueprint_path", "pr_url"}

\* C16: add_paper called with an id that is not tracked appends one entry, at the
\* end of the store, the entries before it unchanged, in memory and in the
\* tracking file; the entry is in discovered with the empty reason and no artifact
\* reference; get_entry with that id, right after, gives an entry whose paper_id,
\* title, authors, arxiv_url and pdf_url are the paper's.
C16_AddAppendsADiscoveredEntry ==
    [][/\ (/\ call'.op = "add_paper"
           /\ get_entry(db, call'.paper.paper_id) = 0)
             => /\ Len(db'.papers) = Len(db.papers) + 1
                /\ SubSeq(db'.papers, 1, Len(db.papers)) = db.papers
                /\ file'.data.papers = DumpDb(db').papers
                /\ \A e \in {db'.papers[Len(db'.papers)]} :
                    /\ e.status = DISCOVERED
                    /\ e.reason = ""
                    /\ \A f \in ArtifactRefs : e[f] = None
                    /\ get_entry(db', call'.paper.paper_id) = Len(db'.papers)
                    /\ \A f \in WriteOnce : e[f] = call'.paper[f]
                /\ file'.data.papers[Len(db'.papers)].status = "discovered"
       /\ (/\ call.op = "add_paper"
           /\ call.appended
           /\ call'.op = "get_entry"
           /\ call'.paper_id = call.paper.paper_id)
             => /\ call'.ret # None
                /\ \A e \in call'.ret : \A f \in WriteOnce : e[f] = call.paper[f]]_vars

\* get_entry has just returned the second entry of the store, which add_paper
\* appended at the present time, later than the first, and which is discovered
C16_AppendedEntryRead ==
    /\ call.op = "get_entry"
    /\ Len(db.papers) = 2
    /\ call.ret = Some(db.papers[2])
    /\ db.papers[2].status = DISCOVERED
    /\ db.papers[2].discovery_date = now
    /\ db.papers[1].discovery_date < now
    /\ Stage(2) = "discovered"

----------------------------------------------------------------------------
(* C17: update_status with an id that is not tracked *)

\* C17: update_status called with an id that no entry has reports that the id was
\* not found (it returns None, raising nothing) and leaves the database in memory
\* and the tracking file as they were.
C17_UpdateOfAbsentIdChangesNothing ==
    [][(/\ call'.op = "update_status"
        /\ \A i \in 1..Len(db.papers) : db.papers[i].paper_id # call'.paper_id)
          => /\ call'.ret = None
             /\ ~call'.raised
             /\ db' = db
             /\ file' = file]_vars

\* update_status has just returned None for an id that is not tracked, the store
\* holding an entry under another id, after time has passed since that entry's
\* last update
C17_AbsentIdReported ==
    /\ call.op = "update_status"
    /\ call.ret = None
    /\ ~call.raised
    /\ call.kwargs # NoKw
    /\ Len(db.papers) = 1
    /\ db.papers[1].paper_id # call.paper_id
    /\ db.papers[1].last_updated < now

----------------------------------------------------------------------------
(* C18: update_status with the id of a tracked entry *)

\* C18: update_status called with the id of a tracked entry raises nothing
\* whatever the keyword arguments; the entry's status is the one passed, each of
\* its fields named by a keyword argument has the value passed, the keyword
\* arguments that name no field are ignored, last_updated is the time of the call,
\* the entry's other fields, the other entries and the order are unchanged.
C18_UpdateSetsWhatIsSupplied ==
    [][\A i \in 1..Len(db.papers) :
        (/\ call'.op = "update_status"
         /\ db.papers[i].paper_id = call'.paper_id
         /\ \A j \in 1..(i - 1) : db.papers[j].paper_id # call'.paper_id)
            => /\ ~call'.raised
               /\ Len(db'.papers) = Len(db.papers)
               /\ \A j \in 1..Len(db.papers) : j # i => db'.papers[j] = db.papers[j]
               /\ \A f \in DOMAIN db.papers[i] :
                    db'.papers[i][f] =
                        IF f \in DOMAIN call'.kwargs THEN call'.kwargs[f]
                        ELSE IF f = "status" THEN call'.status
                        ELSE IF f = "last_updated" THEN now'
                        ELSE db.papers[i][f]]_vars

----------------------------------------------------------------------------
(* C19: the lists of entries *)

\* whether the entry has this status
HasStatus(status, e) == e.status = status

\* C19: get_all_papers returns the entries of the store in the order they were
\* added (none is dated before its predecessor); get_papers_by_status returns
\* the entries whose status is the one asked for, all of them and no other, in
\* the order of the store; neither changes the store, and the same call made
\* again right after returns the same sequence.
C19_ListsFollowTheStore ==
    [][/\ call'.op = "get_all_papers"
            => /\ call'.ret = db.papers
               /\ \A j, k \in 1..Len(call'.ret) :
                    j < k => call'.ret[j].discovery_date <= call'.ret[k].discovery_date
               /\ db' = db
               /\ file' = file
               /\ call.op = "get_all_papers" => call'.ret = call.ret
       /\ call'.op = "get_papers_by_status"
            => /\ call'.ret = SelectSeq(db.papers, LAMBDA e : HasStatus(call'.status, e))
               /\ db' = db
               /\ file' = file
               /\ (call.op = "get_papers_by_status" /\ call.status = call'.status)
                    => call'.ret = call.ret]_vars

\* get_papers_by_status has just returned the second of the two entries of the
\* store and not the first, which has another status
C19_SecondEntryListedAlone ==
    /\ call.op = "get_papers_by_status"
    /\ Len(db.papers) = 2
    /\ call.ret = <<db.papers[2]>>
    /\ db.papers[1].status # call.status
    /\ db.papers[1].discovery_date < db.papers[2].discovery_date

----------------------------------------------------------------------------
(* C20: the tracking file after a call that changed the store *)

\* C20: when Tracker(path) has created the file, when add_paper has appended an
\* entry and when update_status has updated one and returned it, the tracking
\* file holds what the Tracker holds in memory: a Tracker that loads the file
\* then gets the same database, entry for entry and field for field.
C20_FileHoldsWhatMemoryHolds ==
    [][(\/ call'.op = "Tracker"
        \/ call'.op = "add_paper" /\ call'.appended
        \/ call'.op = "update_status" /\ call'.ret # None)
          => /\ file'.exists
             /\ ParseDb(file'.data) = db'
             /\ \A t \in 0..MaxClock : LoadDb(file', t) = db'
             /\ \A i \in 1..Len(db'.papers) :
                    file'.data.papers[i].status = StatusValue(db'.papers[i].status)]_vars

\* update_status has just updated the second of two entries, later than the
\* entries were added, and the file holds the database with the entry's new
\* status, reason and time
C20_UpdateSaved ==
    /\ call.op = "update_status"
    /\ Len(db.papers) = 2
    /\ call.ret = Some(db.papers[2])
    /\ db.papers[2].status = SKIPPED
    /\ db.papers[2].reason = "PDF download failed"
    /\ db.papers[2].discovery_date < now
    /\ db.papers[2].last_updated = now
    /\ db.last_updated = now
    /\ ParseDb(file.data) = db
    /\ Stage(2) = "skipped"

----------------------------------------------------------------------------
(* C21: the store saved and loaded again *)

----------------------------------------------------------------------------
(* C22: a Tracker opened on a path that does not exist *)

\* C22: when a Tracker is opened and the tracking file does not exist, the open
\* returns (the client holds a Tracker afterwards) with a database without
\* entries, and the tracking file exists afterwards and holds a database without
\* entries; a Tracker opened after that finds the file, leaves it as it is and
\* loads a database without entries.
C22_OpenOfMissingFileCreatesAnEmptyStore ==
    [][(call'.op = "Tracker" /\ ~file.exists) =>
         /\ pc' = "tracker"
         /\ db'.papers = <<>>
         /\ file'.exists
         /\ file'.data.papers = <<>>
         /\ file'.data.last_updated = db'.last_updated
         /\ \A t \in {now', MaxClock} :
              /\ LoadFile(file', t) = file'
              /\ LoadDb(file', t).papers = <<>>]_vars

\* a Tracker was opened, the file it created holds no entries and is the one the
\* database in memory was saved to
C22_EmptyStoreCreated ==
    /\ call.op = "Tracker"
    /\ pc = "tracker"
    /\ file.exists
    /\ file.data.papers = <<>>
    /\ db.papers = <<>>
    /\ db.last_updated = file.data.last_updated

----------------------------------------------------------------------------
(* C23: the fields of an entry that are set when it is created *)

\* the fields the claim names: paper_id, title, authors, the source URLs, and
\* the creation time
SetAtCreation == WriteOnce \cup {"discovery_date"}

\* C23: no step changes the paper_id, title, authors, arxiv_url, pdf_url or
\* discovery_date of an entry, in memory or in the tracking file, whatever
\* Tracker call or keyword arguments the step is made of.
C23_FieldsSetAtCreationNeverChange ==
    [][/\ \A i \in 1..Len(db.papers) :
            /\ i <= Len(db'.papers)
            /\ \A f \in SetAtCreation : db'.papers[i][f] = db.papers[i][f]
       /\ \A i \in 1..Len(file.data.papers) :
            /\ i <= Len(file'.data.papers)
            /\ \A f \in SetAtCreation : file'.data.papers[i][f] = file.data.papers[i][f]]_vars

----------------------------------------------------------------------------
(* C24: which command writes which artifact reference *)

\* whether field f of the i-th entry differs between two lists of entries
Differs(before, after, i, f) == i <= Len(after) /\ after[i][f] # before[i][f]

\* C24: of an entry in memory or in the tracking file, analysis_path changes only
\* in a step of cmd_analyze that records the outcome of the analysis,
\* blueprint_filename and blueprint_path change only in the step of cmd_generate
\* that writes the blueprint, and pr_url changes only in the loop of cmd_submit;
\* the steps of discover, download, retry and the review change none of them.
C24_ArtifactReferencesChangeInTheirStageOnly ==
    [][\A i \in 1..Len(db.papers) :
        /\ Differs(db.papers, db'.papers, i, "analysis_path") => pc = "analyze_work"
        /\ Differs(db.papers, db'.papers, i, "blueprint_filename") => pc = "generate_write"
        /\ Differs(db.papers, db'.papers, i, "blueprint_path") => pc = "generate_write"
        /\ Differs(db.papers, db'.papers, i, "pr_url") => pc = "submit"
        /\ \A f \in ArtifactRefs :
            i <= Len(file.data.papers) =>
                (Differs(file.data.papers, file'.data.papers, i, f) <=>
                 Differs(db.papers, db'.papers, i, f))]_vars

\* retry has reset an entry that was analysed, downloaded again and being
\* analysed again: the analysis_path the first analysis recorded is still there
C24_AnalysisPathKeptByRetryAndDownload ==
    /\ pc = "analyze_work"
    /\ file.exists
    /\ Len(file.data.papers) = 1
    /\ Stage(1) = "analyzing"
    /\ last # <<>>
    /\ last[1].status = DOWNLOADED
    /\ last[1].analysis_path # None
    /\ file.data.papers[1].analysis_path = last[1].analysis_path

----------------------------------------------------------------------------
(* C25: the entries stay *)

\* the paper_ids of a list of entries, in order
IdsOf(papers) == [i \in 1..Len(papers) |-> papers[i].paper_id]

\* C25: no step removes or moves an entry: the paper_ids of the entries after a
\* step, in memory and in the tracking file, are the paper_ids before it, in the
\* same order, followed by the ones the step added, and a tracking file that
\* exists keeps existing; this holds for the entries that are skipped as for any
\* other.
C25_EntriesOnlyAppended ==
    [][/\ StartsWith(IdsOf(db'.papers), IdsOf(db.papers))
       /\ StartsWith(IdsOf(file'.data.papers), IdsOf(file.data.papers))
       /\ file.exists => file'.exists]_vars

\* an entry was skipped by a download that is over, and a later discover has
\* added a second entry behind it
C25_AppendedBehindASkippedEntry ==
    /\ pc = "idle"
    /\ Len(file.data.papers) = 2
    /\ Stage(1) = "skipped"
    /\ Stage(2) = "discovered"
    /\ IdsOf(file.data.papers) = <<PaperIdList[1], PaperIdList[2]>>

----------------------------------------------------------------------------
(* C26: the outcomes of a download *)

\* C26: for the entry the loop of cmd_download is at: the first step marks it
\* downloading before the PDF is fetched; the step in which download_pdf returns
\* starts from downloading and leaves the entry downloaded when the PDF is there,
\* and skipped with the reason "PDF download failed", never discovered, when
\* download_pdf returned None.
C26_DownloadOutcomes ==
    [][/\ pc = "download" =>
            \A i \in {Head(entries)} :
                /\ pc' = "download_fetch"
                /\ file'.data.papers[i].status = "downloading"
                /\ db'.papers[i].status = DOWNLOADING
                /\ pdfs' = pdfs
       /\ (pc = "download_fetch" /\ file' # file) =>
            \A i \in {Head(entries)} :
                /\ file.data.papers[i].status = "downloading"
                /\ IF db.papers[i].paper_id \in pdfs'
                   THEN /\ file'.data.papers[i].status = "downloaded"
                        /\ db'.papers[i].status = DOWNLOADED
                   ELSE /\ file'.data.papers[i].status = "skipped"
                        /\ db'.papers[i].status = SKIPPED
                        /\ file'.data.papers[i].reason = "PDF download failed"]_vars

\* a run of download over two entries: the first was downloaded, the second was
\* marked downloading and its download failed
C26_OneDownloadedOneSkipped ==
    /\ pc = "idle"
    /\ Len(file.data.papers) = 2
    /\ Stage(1) = "downloaded"
    /\ Stage(2) = "skipped"
    /\ Reason(2) = "PDF download failed"
    /\ pdfs = {db.papers[1].paper_id}

----------------------------------------------------------------------------
(* C27: the reason recorded with a failure *)

\* the moves of a stored entry that record a failure: a rollback of a failed
\* analysis or generation, a move to skipped, a move to insufficient_data
FailureMove(before, after) ==
    /\ after # before
    /\ \/ before = "analyzing" /\ after = "downloaded"
       \/ before = "converting" /\ after = "analyzed"
       \/ after = "skipped"
       \/ after = "insufficient_data"

\* C27: whenever a step of a command moves a stored entry to a rollback target
\* (analyzing to downloaded, converting to analyzed), to skipped or to
\* insufficient_data, the entry's reason after the step is not the empty string,
\* in the tracking file and in memory.
C27_FailuresCarryAReason ==
    [][pc # "idle" =>
        \A i \in 1..Len(file.data.papers) :
            FailureMove(file.data.papers[i].status, file'.data.papers[i].status) =>
                /\ file'.data.papers[i].reason # ""
                /\ db'.papers[i].reason # ""]_vars

----------------------------------------------------------------------------
(* C28: validate_blueprint_yaml on every text *)

\* C28: whatever the text, documents of any shapes or a text safe_load_all does
\* not load, the call of validate_blueprint_yaml does not raise and returns a
\* list, and for a text that does not load the list has exactly one entry.
C28_ValidatorNeverRaises ==
    call.op = "validate_blueprint_yaml" =>
        /\ ~call.raised
        /\ call.ret # None
        /\ \A errors \in call.ret :
            /\ errors \in Seq(STRING)
            /\ ~yaml_content.parses => Len(errors) = 1

----------------------------------------------------------------------------
(* C29: the four structures of one document *)

\* the keys that mark a header and the keys that mark an item
HeaderMarkers == {"title", "models", "system", "concurrency", "temperatures", "evaluationConfig", "id"}
ItemMarkers == {"prompt", "messages", "should", "ideal"}

\* a header the stream of documents shows as one: it has a header marker and no
\* item marker
ShownAsHeader(header) ==
    /\ DOMAIN header.map \cap HeaderMarkers # {}
    /\ DOMAIN header.map \cap ItemMarkers = {}

\* the call has returned this list
Returned(errors) == call.op = "validate_blueprint_yaml" /\ ~call.raised /\ call.ret = Some(errors)

\* the call was made on these documents
ValidatedDocs(docs) == call.op = "validate_blueprint_yaml" /\ yaml_content = ParsedText(docs)

----------------------------------------------------------------------------
(* C30: the structures that are accepted *)

\* the four cases, for the documents left when the empty ones are dropped
OneDictThenOneList(docs) == Len(docs) = 2 /\ IsDict(docs[1]) /\ IsList(docs[2])
OneDictWithPrompts(docs) == Len(docs) = 1 /\ IsDict(docs[1]) /\ "prompts" \in DOMAIN docs[1].map
OneList(docs) == Len(docs) = 1 /\ IsList(docs[1])
AllDicts(docs) == \A k \in 1..Len(docs) : IsDict(docs[k])

\* C30: for a text that loads and has a document that is not empty,
\* validate_blueprint_yaml returns the single error "Invalid YAML structure."
\* exactly when the documents left after the empty ones are dropped are none of:
\* one dict then one list, one dict with the key "prompts", one list, dicts only.
C30_OnlyTheFourStructuresAccepted ==
    (call.op = "validate_blueprint_yaml" /\ yaml_content.parses) =>
        \A docs \in {SelectSeq(yaml_content.docs, Truthy)} :
            docs # <<>> =>
                IF \/ OneDictThenOneList(docs)
                   \/ OneDictWithPrompts(docs)
                   \/ OneList(docs)
                   \/ AllDicts(docs)
                THEN /\ ~call.raised
                     /\ \A errors \in call.ret :
                         \A k \in 1..Len(errors) : errors[k] # "Invalid YAML structure."
                ELSE Returned(<<"Invalid YAML structure.">>)

----------------------------------------------------------------------------
(* C31: the first of a stream of dicts *)

\* C31: for a text whose documents, the empty ones dropped, are all dicts and
\* are not one dict with the key "prompts": when the first document has a header
\* marker and no item marker, validate_blueprint_yaml returns the errors of the
\* documents after it, checked as prompts 0, 1, ...; otherwise it returns the
\* errors of all the documents, the first included, checked as prompts 0, 1, ...
C31_FirstDictIsHeaderByItsKeys ==
    (call.op = "validate_blueprint_yaml" /\ yaml_content.parses) =>
        \A docs \in {SelectSeq(yaml_content.docs, Truthy)} :
            (docs # <<>> /\ AllDicts(docs) /\ ~OneDictWithPrompts(docs)) =>
                IF ShownAsHeader(docs[1])
                THEN Returned(AllPromptErrors(Tail(docs), 0))
                ELSE Returned(AllPromptErrors(docs, 0))

\* a first document with a title and an ideal answer, followed by a valid item,
\* was validated and was checked as prompt 0
C31_HeaderWithItemMarkerCheckedAsItem ==
    /\ pc = "validated"
    /\ \E item \in ValidItems : ValidatedDocs(<<MixedHeader, item>>)
    /\ Returned(<<"Prompt 'index-0' must contain 'prompt' or 'messages'.">>)

----------------------------------------------------------------------------
(* C32: the errors of the items *)

\* the rubric fields, in the order they are checked
RubricFields == <<"should", "should_not", "points", "expect", "expects", "expectations">>

\* the documents resolve to a list of items, and the list they resolve to
ResolvesToItems(docs) ==
    \/ OneDictThenOneList(docs)
    \/ OneDictWithPrompts(docs) /\ IsList(docs[1].map["prompts"])
    \/ OneList(docs)
    \/ AllDicts(docs) /\ ~OneDictWithPrompts(docs)
ResolvedItems(docs) ==
    IF OneDictThenOneList(docs) THEN docs[2].items
    ELSE IF OneDictWithPrompts(docs) THEN docs[1].map["prompts"].items
    ELSE IF OneList(docs) THEN docs[1].items
    ELSE IF ShownAsHeader(docs[1]) THEN Tail(docs)
    ELSE docs

\* the name an error gives the item at index i
ItemName(item, i) ==
    IF "id" \in DOMAIN item.map THEN item.map["id"].text ELSE "index-" \o ToString(i)

\* the errors expected of the dict item at index i, the text of an item being
\* a string under one of the fields textFields
ExpectedOfItem(item, i, textFields) ==
    LET hasText == \E f \in textFields : f \in DOMAIN item.map /\ item.map[f].type = "str"
        hasMessages == "messages" \in DOMAIN item.map /\ item.map["messages"].type = "list"
        NotAList(f) == f \in DOMAIN item.map /\ item.map[f].type # "list"
        bad == SelectSeq(RubricFields, NotAList)
    IN  (IF ~hasText /\ ~hasMessages
         THEN <<"Prompt '" \o ItemName(item, i) \o "' must contain 'prompt' or 'messages'.">>
         ELSE <<>>)
        \o [k \in 1..Len(bad) |->
              "Rubric '" \o bad[k] \o "' in prompt '" \o ItemName(item, i) \o "' must be a list."]

\* the errors expected of the items from (0-based) index i on, in index order;
\* an item that is no dict has none of them
RECURSIVE ExpectedOfItems(_, _, _)
ExpectedOfItems(items, i, textFields) ==
    IF i >= Len(items)
    THEN <<>>
    ELSE (IF items[i + 1].type = "dict" THEN ExpectedOfItem(items[i + 1], i, textFields) ELSE <<>>)
         \o ExpectedOfItems(items, i + 1, textFields)

\* the errors about the content and the rubrics of dict items among the errors returned
AboutDictItems(errors) ==
    LET NoObjectError(e) ==
            \A i \in 0..MaxBlocks : e # "Prompt at index " \o ToString(i) \o " is not a valid object."
    IN  SelectSeq(errors, NoObjectError)

\* the errors returned for the items are the expected ones, for the text fields given
ItemErrorsAre(textFields) ==
    (call.op = "validate_blueprint_yaml" /\ yaml_content.parses) =>
        \A docs \in {SelectSeq(yaml_content.docs, Truthy)} :
            (docs # <<>> /\ ResolvesToItems(docs)) =>
                /\ ~call.raised
                /\ \A errors \in call.ret :
                    AboutDictItems(errors) = ExpectedOfItems(ResolvedItems(docs), 0, textFields)

\* C32 as stated: for every list of items the documents resolve to, the errors
\* returned hold, in index order, one "must contain 'prompt' or 'messages'"
\* error for each dict item without a string "prompt" and without a list
\* "messages", and one "must be a list" error for each of the six rubric fields
\* the item has with a value that is no list, each naming the item's id or
\* index-<i>; and no other error about a dict item.
C32_ItemErrorsCountingPromptOnly == ItemErrorsAre({"prompt"})

\* C32 amended: the same, an item's text being a string under "prompt" or
\* under "promptText".
C32_ItemErrorsCountingPromptText == ItemErrorsAre({"prompt", "promptText"})

\* a list of three items was validated: the first, with an id, has no text and
\* two rubrics that are no lists, the second has its text under "promptText",
\* the third a scalar rubric
C32_ThreeItemsFourErrors ==
    /\ pc = "validated"
    /\ ValidatedDocs(<<YList(<<BareRubricItem, PromptTextItem, ScalarRubricItem>>)>>)
    /\ Returned(<<"Prompt 'q2' must contain 'prompt' or 'messages'.",
                  "Rubric 'should' in prompt 'q2' must be a list.",
                  "Rubric 'points' in prompt 'q2' must be a list.",
                  "Rubric 'should' in prompt 'index-2' must be a list.">>)

----------------------------------------------------------------------------
(* C33: the empty documents *)

\* a document that is not null, not an empty dict, list or string and not 0
HasContent(v) ==
    /\ v.type # "null"
    /\ v.type = "dict" => DOMAIN v.map # {}
    /\ v.type = "list" => Len(v.items) > 0
    /\ v.type = "str" => v.text # ""
    /\ v.type = "int" => v.text # "0"

\* C33: for a text that loads, validate_blueprint_yaml returns what it returns
\* for the same documents without the empty ones (null, empty dict, empty list,
\* empty string, 0); and when every document is empty, or there is none, it
\* returns the one error "YAML file is empty." and nothing else.
C33_EmptyDocumentsDropped ==
    (call.op = "validate_blueprint_yaml" /\ yaml_content.parses) =>
        \A docs \in {SelectSeq(yaml_content.docs, HasContent)} :
            /\ Returned(validate_blueprint_yaml(ParsedText(docs)))
            /\ docs = <<>> <=> Returned(<<"YAML file is empty.">>)

\* a text of an empty dict, an empty list and 0 was validated
C33_OnlyEmptyDocuments ==
    /\ pc = "validated"
    /\ ValidatedDocs(<<YDict(<<>>), YList(<<>>), YInt(0)>>)
    /\ Returned(<<"YAML file is empty.">>)

----------------------------------------------------------------------------
(* C40: the error of line 76 *)

\* the error of line 76 is among the errors
HasEmptyContent(errors) ==
    \E k \in 1..Len(errors) :
        errors[k] = "Blueprint must contain at least one prompt or config header."

\* C40 as stated: among the texts, the one the caller holds included, there is
\* one for which validate_blueprint_yaml returns the error "Blueprint must
\* contain at least one prompt or config header.".
C40_EmptyContentReturnedForSomeText ==
    \E content \in ValidatorTexts \cup {yaml_content} :
        /\ ~validate_blueprint_yaml_raises(content)
        /\ HasEmptyContent(validate_blueprint_yaml(content))

\* C40 amended: no call of validate_blueprint_yaml returns the error "Blueprint
\* must contain at least one prompt or config header.": when the documents left
\* after the empty ones are dropped resolve to a list of items, the list has an
\* item or the header is a dict with a key; a text with nothing but empty
\* documents gets "YAML file is empty." instead.
C40_EmptyContentNeverReturned ==
    (call.op = "validate_blueprint_yaml" /\ yaml_content.parses) =>
        /\ \A errors \in call.ret : ~HasEmptyContent(errors)
        /\ \A docs \in {SelectSeq(yaml_content.docs, HasContent)} :
            /\ (docs # <<>> /\ ResolvesToItems(docs)) =>
                \/ ResolvedItems(docs) # <<>>
                \/ IsDict(docs[1]) /\ DOMAIN docs[1].map # {}
            /\ docs = <<>> => Returned(<<"YAML file is empty.">>)

\* an empty header followed by an empty list was validated: both documents
\* were dropped and the text was reported as empty
C40_EmptyHeaderAndListReportedEmpty ==
    /\ pc = "validated"
    /\ ValidatedDocs(<<YDict(<<>>), YList(<<>>)>>)
    /\ Returned(<<"YAML file is empty.">>)

----------------------------------------------------------------------------
(* C34: what the deterministic generator writes passes the validator *)

\* the analysis and the paper the caller of the generator holds
HeldAnalysis == analyses[db.papers[1].paper_id]
HeldPaper == db.papers[1]
Generated == pc \in {"validate", "validated"} /\ db.papers # <<>> /\ analyses # <<>>

\* C34: for every analysis with at least one prompt (item id, ideal answer,
\* scoring criteria, system instruction and category each present or absent)
\* and every paper, the text generate_blueprint_deterministic gives loads
\* without an exception and validate_blueprint_yaml returns the empty list
\* for it; the call made on it returned the empty list.
C34_GeneratedBlueprintHasNoDefects ==
    Generated =>
        /\ yaml_content.parses
        /\ ~validate_blueprint_yaml_raises(yaml_content)
        /\ validate_blueprint_yaml(yaml_content) = <<>>
        /\ pc = "validated" => Returned(<<>>)

\* validated: a prompt whose text reads as a number, with no id, no ideal
\* answer, no criteria, no system instruction and no category
C34_BarePromptWithNumericTextValidated ==
    /\ Generated /\ pc = "validated" /\ Returned(<<>>)
    /\ Len(HeldAnalysis.prompts) = 1
    /\ HeldAnalysis.prompts[1].prompt_text = "123"
    /\ HeldAnalysis.prompts[1].id = ""
    /\ HeldAnalysis.prompts[1].ideal_response = None
    /\ HeldAnalysis.prompts[1].scoring_criteria = <<>>
    /\ HeldAnalysis.prompts[1].system_prompt = None
    /\ HeldAnalysis.prompts[1].category = None
    /\ HeldPaper.title = "123"

----------------------------------------------------------------------------
(* C35: the rubric built from the scoring criteria *)

RubricPrefixes == {"Must contain:", "Contains:", "Answer:", "Correct answer:"}

\* the rubric item a criterion stands for: a containment check on the text
\* behind the prefix, without the whitespace and the quotes around it, or the
\* criterion itself
ExpectedRubricItem(criterion) ==
    IF \E prefix \in RubricPrefixes : StartsWith(criterion, prefix)
    THEN LET prefix == CHOOSE prefix \in RubricPrefixes : StartsWith(criterion, prefix)
             text == From(criterion, Len(prefix) + 1)
         IN  YDict([k \in {"$icontains"} |->
                      YStr(Strip(Strip(Strip(text, Whitespace), {"\""}), {"'"}))])
    ELSE YStr(criterion)

\* the items of the generated text
GeneratedItems == yaml_content.docs[2].items

\* C35: in the generated text the i-th item has no "should" when the i-th
\* prompt has no scoring criteria; otherwise its "should" is a list as long as
\* the criteria whose j-th element is { "$icontains": text behind the prefix }
\* when the j-th criterion starts with "Must contain:", "Contains:", "Answer:"
\* or "Correct answer:", and the j-th criterion itself otherwise.
C35_RubricFollowsTheCriteria ==
    Generated =>
        /\ Len(yaml_content.docs) = 2
        /\ Len(GeneratedItems) = Len(HeldAnalysis.prompts)
        /\ \A i \in 1..Len(HeldAnalysis.prompts) :
              \A criteria \in {HeldAnalysis.prompts[i].scoring_criteria} :
                 IF criteria = <<>>
                 THEN ~HasKey(GeneratedItems[i], "should")
                 ELSE /\ HasKey(GeneratedItems[i], "should")
                      /\ IsList(GeneratedItems[i].map["should"])
                      /\ Len(GeneratedItems[i].map["should"].items) = Len(criteria)
                      /\ \A j \in 1..Len(criteria) :
                            GeneratedItems[i].map["should"].items[j]
                                = ExpectedRubricItem(criteria[j])

\* generated: two prompts, the first with one prefixed criterion, the second
\* with a free criterion followed by a prefixed one
C35_PrefixedAndFreeCriteriaGenerated ==
    /\ Generated
    /\ Len(HeldAnalysis.prompts) = 2
    /\ HeldAnalysis.prompts[1].scoring_criteria = <<"Answer: 4">>
    /\ HeldAnalysis.prompts[2].scoring_criteria = <<"Explains the sum", "Contains:  x ">>
    /\ GeneratedItems[2].map["should"].items
          = <<YStr("Explains the sum"), YDict([k \in {"$icontains"} |-> YStr("x")])>>

----------------------------------------------------------------------------
(* C36: the tags of the generated header *)

\* the strings of a list of str values
TextsOf(v) == [i \in 1..Len(v.items) |-> v.items[i].text]

\* the tags the generated header carries
GeneratedTags == TextsOf(yaml_content.docs[1].map["tags"])

\* the slugs of the analysis tags
TagSlugs == [i \in 1..Len(HeldAnalysis.tags) |-> slugify(HeldAnalysis.tags[i], TagSlugLength)]

\* the i-th slug is added: it is not empty, no default tag and no earlier slug
Added(i) ==
    /\ TagSlugs[i] # ""
    /\ \A d \in 1..Len(default_tags) : default_tags[d] # TagSlugs[i]
    /\ \A j \in 1..(i - 1) : TagSlugs[j] # TagSlugs[i]

\* C36: the tags of the generated header are all strings; they start with the
\* default tags in their order, followed by the slugs (at most 30 characters)
\* of the analysis tags that are not empty and not in the list before, in the
\* order of their first occurrence; no tag behind the default ones occurs twice.
C36_TagsAreDefaultsThenFirstSeenSlugs ==
    Generated =>
        \A tags \in {GeneratedTags} :
            /\ \A i \in 1..Len(tags) : IsStr(yaml_content.docs[1].map["tags"].items[i])
            /\ Len(tags) >= Len(default_tags)
            /\ SubSeq(tags, 1, Len(default_tags)) = default_tags
            /\ SubSeq(tags, Len(default_tags) + 1, Len(tags))
                  = [k \in 1..Cardinality({i \in 1..Len(TagSlugs) : Added(i)}) |->
                        TagSlugs[CHOOSE i \in 1..Len(TagSlugs) :
                            /\ Added(i)
                            /\ Cardinality({j \in 1..i : Added(j)}) = k]]
            /\ \A i, j \in (Len(default_tags) + 1)..Len(tags) : tags[i] = tags[j] => i = j
            /\ \A i \in 1..Len(tags) : Len(tags[i]) <= TagSlugLength

\* generated: a tag whose slug is a default tag, then a tag seen twice in
\* different case
C36_RepeatedAndDefaultTagsGenerated ==
    /\ Generated
    /\ HeldAnalysis.tags = <<"The Benchmark", "NLP", "nlp">>
    /\ GeneratedTags = <<"benchmark", "automated-extraction", "nlp">>

----------------------------------------------------------------------------
(* C37: which faults the call loop retries *)

\* a pass of the loop is made
PassMade ==
    /\ pc = "call_with_retry"
    /\ call.op = "_call_with_retry"
    /\ Len(call'.outcomes) = Len(call.outcomes) + 1

\* the pass is followed by a sleep of base_delay * 2^attempt and the next pass
Retried ==
    /\ pc' = "call_with_retry"
    /\ ~call'.raised /\ call'.ret = None
    /\ call'.attempt = call.attempt + 1
    /\ call'.slept = Append(call.slept, call.base_delay * 2^(call.attempt))

\* the pass ends the call with the fault, with no sleep
Surfaced(o) ==
    /\ pc' = "raised"
    /\ call'.raised /\ call'.error = o.message
    /\ call'.slept = call.slept
    /\ call'.attempt = call.attempt

\* C37: in every pass of the loop of _call_with_retry, a rate-limit fault or a
\* server-error fault is followed by a sleep of base_delay * 2^attempt and the
\* next pass; a blocked response, an empty response and any other fault is
\* raised to the caller in that pass, with no sleep and no further call.
C37_RetriedOrSurfacedByKindOfFault ==
    [][PassMade =>
        \A o \in {call'.outcomes[Len(call'.outcomes)]} :
            /\ o.kind \in {"RateLimited", "ServerError"} => Retried
            /\ o.kind \in {"Blocked", "Empty", "Other"} => Surfaced(o)]_vars

----------------------------------------------------------------------------
(* C38: the call loop ends *)

\* the call has returned or raised
CallOver == pc \in {"returned", "raised"}

\* the outcomes before the last one are all faults that were slept on
AllBeforeRetried(outcomes, n) ==
    \A i \in 1..n :
        /\ outcomes[i].kind # "Text"
        /\ \E code \in {"429", "503", "500"} : Contains(outcomes[i].message, code)

\* C38: every call of _call_with_retry comes to an end, by a return or by an
\* exception; at every moment it has made at most max_retries calls of the
\* model; when it returns, it returns the text of its last call, which is the
\* only one that gave a text; when max_retries calls in a row gave a fault
\* that is retried it raises RuntimeError and returns nothing; with
\* max_retries = 0 it raises RuntimeError with no call made.
C38_CallLoopEnds ==
    /\ <>CallOver
    /\ [](call.op = "_call_with_retry" =>
            /\ Len(call.outcomes) <= call.max_retries
            /\ pc = "returned" =>
                  /\ call.outcomes # <<>>
                  /\ call.outcomes[Len(call.outcomes)].kind = "Text"
                  /\ call.ret = Some(call.outcomes[Len(call.outcomes)].message)
                  /\ AllBeforeRetried(call.outcomes, Len(call.outcomes) - 1)
                  /\ ~call.raised
            /\ (CallOver /\ Len(call.outcomes) = call.max_retries
                         /\ AllBeforeRetried(call.outcomes, call.max_retries)) =>
                  /\ pc = "raised" /\ call.raised /\ call.ret = None
                  /\ call.exception = "RuntimeError"
            /\ (CallOver /\ call.max_retries = 0) =>
                  /\ call.outcomes = <<>>
                  /\ pc = "raised" /\ call.exception = "RuntimeError")

\* raised after three faults that were retried, with sleeps of 2, 4 and 8
C38_RaisedAfterThreeRetriedFaults ==
    /\ pc = "raised"
    /\ call.op = "_call_with_retry"
    /\ call.max_retries = 3
    /\ Len(call.outcomes) = 3
    /\ call.exception = "RuntimeError"
    /\ call.slept = <<2, 4, 8>>

----------------------------------------------------------------------------
(* C39: a stage and the artifact it rests on *)

\* the entry has what its stage rests on
ArtifactRecorded(e) ==
    /\ e.status \in {ANALYZED, CONVERTING} => e.analysis_path # None
    /\ e.status = READY_FOR_REVIEW =>
          e.blueprint_filename # None /\ e.blueprint_path # None
    /\ e.status = PR_CREATED => e.pr_url # None /\ e.pr_url # Some("")

\* C39: in every state, every entry held in memory whose status is analyzed
\* or converting has analysis_path set, every one whose status is
\* ready_for_review has blueprint_filename and blueprint_path set, and every
\* one whose status is pr_created has a pr_url that is not empty.
C39_StageImpliesItsArtifact ==
    \A i \in 1..Len(db.papers) : ArtifactRecorded(db.papers[i])

====
